---- MODULE Spec2Model ----
(***************************************************************************)
(* OlympiadQR (olimpqr backend): competition lifecycle, entry tokens,      *)
(* the admission workflow (verify / approve) with the seating scheduler,   *)
(* entry-token refresh and the OCR worker.                                 *)
(*                                                                         *)
(* Requests run in parallel, each in its own database session.  A session  *)
(* is a transaction of the PostgreSQL database at READ COMMITTED: a read   *)
(* sees the committed rows plus the session's own flushed writes, a        *)
(* flushed UPDATE or a unique-index INSERT waits for a concurrent          *)
(* uncommitted write of the same row or key, and nothing a session wrote   *)
(* is visible to others before its commit.                                 *)
(***************************************************************************)
EXTENDS Integers, FiniteSets, Sequences, TLC

(***************************************************************************)
(* Bounds of the model.                                                    *)
(***************************************************************************)
MaxTime == 2          \* the clock runs 0..MaxTime
MaxIds == 3           \* uuid4 / token_urlsafe values drawn in one behaviour
MaxCalls == 2         \* use() calls made on one EntryToken object

(***************************************************************************)
(* Fixed data of the scenario.                                             *)
(***************************************************************************)
Null == -1                         \* Python None in an integer column
Regs == {1, 2}                     \* registrations, one participant each
Workers == {"w1", "w2"}            \* request-handling workers
AllRooms == <<"A", "B">>           \* rooms of the competition, ORDER BY name
capacity == [A |-> 2, B |-> 1]     \* Room.capacity
\* Participant.institution_id of each registration: the two registrations
\* of Regs, and two more of participants admitted earlier
institution_id == <<"X", "none", "X", "Y">>
variants_count == 2                \* Competition.variants_count
entry_token_expire_hours == 2      \* Settings.entry_token_expire_hours, in ticks
InitialExpiry == 1                 \* expires_at of the tokens issued before time 0
BogusRaw == 0                      \* a raw token that was never issued

UserRole == {"participant", "admitter", "scanner", "admin", "invigilator"}
Users == {"u1", "u2"}              \* rows of the users table
\* A worker serving no role-gated request.
IdleCall == [pc |-> "idle", op |-> "none", bearer |-> "none", user |-> "none", code |-> 0]

CompetitionStatus == {"draft", "registration_open", "in_progress", "checking", "published"}
RegistrationStatus == {"pending", "admitted", "completed", "cancelled"}

VARIABLES
    now,            \* datetime.utcnow()
    competition,    \* [status]: the competition row
    statusReq,      \* the last status-change request and its outcome
    rooms,          \* sequence of the rooms configured for the competition
    entry_tokens,   \* committed entry_tokens rows, by registration
    registrations,  \* committed registrations rows (status), by registration
    seat_assignments, \* committed seat_assignments rows
    attempts,       \* committed attempts rows
    answer_sheets,  \* committed answer_sheets rows
    audit_logs,     \* committed audit_logs rows
    tx,             \* per worker: the request it runs and its session
    nextId,         \* next fresh value of uuid4() / secrets.token_urlsafe()
    approved,       \* per registration: number of approve requests that succeeded
    issued,         \* raw tokens handed out by refresh-token
    tokenObj,       \* EntryToken objects and the use() calls made on them
    scans,          \* committed scans rows, by scan
    ocr,            \* per scan: the process_scan_ocr job enqueued for it
    regObj,         \* one Registration object and the last method called on it
    attObj,         \* one Attempt object and the last method called on it
    response,       \* the last answer of GET /results/{competition_id}
    users,          \* committed users rows (role, is_active), by user
    sessions,       \* users holding an access token issued by a login
    calls           \* per worker: the role-gated request it serves

vars == <<now, competition, statusReq, rooms, entry_tokens, registrations,
          seat_assignments, attempts, answer_sheets, audit_logs, tx, nextId,
          approved, issued, tokenObj, scans, ocr, regObj, attObj, response,
          users, sessions, calls>>

\* The variables only some of the specifications move.
objs == <<regObj, attObj>>
auth == <<users, sessions, calls>>
aux == <<statusReq, tokenObj, scans, ocr, objs, response, auth>>

db == <<entry_tokens, registrations, seat_assignments, attempts, answer_sheets, audit_logs>>

(***************************************************************************)
(* Token service.                                                          *)
(***************************************************************************)
\* TokenService._compute_hash: HMAC-SHA256 under the process-wide key; an
\* injective map from raw tokens to digests, never the raw token itself.
hash_token(raw) == <<"hmac", raw>>

\* secrets.token_urlsafe: a raw token no earlier call returned.
generate_token(n) == 10 + n

InitialRaw(r) == r

(***************************************************************************)
(* Entities.                                                               *)
(***************************************************************************)
\* EntryToken.is_expired
is_expired(tok, t) == t > tok.expires_at

\* EntryToken.is_used
is_used(tok) == tok.used_at # Null

\* use() without the "already used" check.
EntryToken_use_reusable(tok, t) ==
    IF is_expired(tok, t) THEN [ok |-> FALSE, err |-> "TokenExpired", tok |-> tok]
    ELSE [ok |-> TRUE, err |-> "none", tok |-> [tok EXCEPT !.used_at = t]]

\* EntryToken.use: [ok, err, tok]
EntryToken_use(tok, t) ==
    IF tok.used_at # Null THEN [ok |-> FALSE, err |-> "TokenUsed", tok |-> tok]
    ELSE IF is_expired(tok, t) THEN [ok |-> FALSE, err |-> "TokenExpired", tok |-> tok]
    ELSE [ok |-> TRUE, err |-> "none", tok |-> [tok EXCEPT !.used_at = t]]

\* admit() without its precondition.
Registration_admit_unguarded(status) == [ok |-> TRUE, status |-> "admitted"]

\* Registration.admit: [ok, status]
Registration_admit(status) ==
    IF status # "pending" THEN [ok |-> FALSE, status |-> status]
    ELSE [ok |-> TRUE, status |-> "admitted"]

\* complete() that leaves the status as it is.
Registration_complete_skipped(status) == [ok |-> TRUE, status |-> status]

\* Registration.complete: [ok, status]
Registration_complete(status) ==
    IF status # "admitted" THEN [ok |-> FALSE, status |-> status]
    ELSE [ok |-> TRUE, status |-> "completed"]

\* Competition.open_registration / start_competition / start_checking /
\* publish_results, as dispatched by ChangeCompetitionStatusUseCase.execute:
\* [ok, status]
RequiredStatus(new_status) ==
    CASE new_status = "registration_open" -> "draft"
      [] new_status = "in_progress" -> "registration_open"
      [] new_status = "checking" -> "in_progress"
      [] new_status = "published" -> "checking"
      [] OTHER -> "no such transition"

\* publish_results() accepted from in_progress as well as from checking.
Competition_transition_early_publish(status, new_status) ==
    IF new_status \in {"registration_open", "in_progress", "checking", "published"}
       /\ (status = RequiredStatus(new_status)
             \/ (new_status = "published" /\ status = "in_progress"))
    THEN [ok |-> TRUE, status |-> new_status]
    ELSE [ok |-> FALSE, status |-> status]

Competition_transition(status, new_status) ==
    IF new_status \in {"registration_open", "in_progress", "checking", "published"}
       /\ status = RequiredStatus(new_status)
    THEN [ok |-> TRUE, status |-> new_status]
    ELSE [ok |-> FALSE, status |-> status]

(***************************************************************************)
(* Sessions.                                                               *)
(***************************************************************************)
Infinity == 1000      \* float('inf'), above every count of the model

NoToken == [registration_id |-> 0, token_hash |-> hash_token(BogusRaw), raw_token |-> BogusRaw,
            expires_at |-> 0, used_at |-> Null]

\* A worker with no request: no session, no flushed writes.
IdleTx == [pc |-> "idle", op |-> "none", reg |-> 0, raw |-> BogusRaw,
           et |-> NoToken, loaded |-> NoToken, i |-> 0, best_room |-> "none", best_same_inst |-> Infinity,
           best_free_seats |-> -1, seat_number |-> 0, variant_number |-> 0,
           err |-> "none", new_raw |-> BogusRaw, can_proceed |-> FALSE, seen |-> << >>,
           participant |-> "none", skip |-> FALSE, scan |-> 0, score |-> 0,
           entry_token |-> BogusRaw,
           wScans |-> << >>, wAttUpd |-> << >>,
           wTok |-> << >>, wReg |-> << >>, wSeats |-> {}, wAttempts |-> {},
           wSheets |-> {}, wAudit |-> {}]

Over(f, g) == [k \in (DOMAIN f) \cup (DOMAIN g) |-> IF k \in DOMAIN g THEN g[k] ELSE f[k]]
Put(f, k, v) == [x \in (DOMAIN f) \cup {k} |-> IF x = k THEN v ELSE f[x]]

\* What the session of worker w reads: committed rows under its own writes.
VisTok(w) == Over(entry_tokens, tx[w].wTok)
VisReg(w) == Over(registrations, tx[w].wReg)
VisSeats(w) == seat_assignments \cup tx[w].wSeats

\* Row locks held by the uncommitted writes of the other sessions.
TokLocked(w, r) == \E o \in Workers \ {w} : r \in DOMAIN tx[o].wTok
RegLocked(w, r) == \E o \in Workers \ {w} : r \in DOMAIN tx[o].wReg

\* The handler answers the error without raising: the session commits.
Raise_swallowed(w, e) == tx' = [tx EXCEPT ![w].pc = "commit", ![w].err = e]

\* "except ValueError as e: raise HTTPException(...)", and every other
\* exception, leave the handler: the session is rolled back next.
Raise(w, e) == tx' = [tx EXCEPT ![w].pc = "rollback", ![w].err = e]

Goto(w, t) == tx' = [tx EXCEPT ![w] = t]

\* EntryTokenRepositoryImpl.get_by_token_hash: the rows with that hash.
get_by_token_hash(w, h) == {r \in Regs : VisTok(w)[r].token_hash = h}

\* An UPDATE that writes both columns, changed or not.
EntryTokenRepository_update_all_columns(row, loaded, entity) ==
    [row EXCEPT !.expires_at = entity.expires_at, !.used_at = entity.used_at]

\* EntryTokenRepositoryImpl.update: only expires_at and used_at are copied
\* from the entity to the model the session loaded, and the flush writes the
\* columns whose value differs from the loaded one; the others keep what the
\* row holds when the UPDATE gets its lock.
EntryTokenRepository_update(row, loaded, entity) ==
    [row EXCEPT !.expires_at = IF entity.expires_at # loaded.expires_at
                               THEN entity.expires_at ELSE @,
                !.used_at = IF entity.used_at # loaded.used_at THEN entity.used_at ELSE @]

(***************************************************************************)
(* Competition lifecycle.                                                  *)
(***************************************************************************)
\* ChangeCompetitionStatusUseCase.execute, reached from open-registration,
\* start, start-checking and publish.
ChangeStatus(new_status) ==
    LET res == Competition_transition(competition.status, new_status) IN
    /\ competition' = [competition EXCEPT !.status = res.status]
    /\ UNCHANGED <<now, aux, rooms, db, tx, nextId, approved, issued>>

\* The same request, with its outcome kept for inspection.
ChangeStatusObserved(new_status) ==
    LET res == Competition_transition(competition.status, new_status) IN
    /\ competition' = [competition EXCEPT !.status = res.status]
    /\ statusReq' = [from |-> competition.status, to |-> new_status, ok |-> res.ok]
    /\ UNCHANGED <<auth, now, rooms, db, tx, nextId, approved, issued, tokenObj, scans, ocr,
                   objs, response>>

\* The clock.
Tick ==
    /\ now < MaxTime
    /\ now' = now + 1
    /\ UNCHANGED <<competition, aux, rooms, db, tx, nextId, approved, issued>>

(***************************************************************************)
(* Approve admission.                                                      *)
(***************************************************************************)
frame == <<now, competition, aux, rooms, db, nextId, approved, issued>>

\* POST /admission/{registration_id}/approve arrives.
StartApprove(w, r, raw) ==
    /\ tx[w].pc = "idle"
    /\ tx' = [tx EXCEPT ![w] = [IdleTx EXCEPT !.pc = "a_verify", !.op = "approve",
                                             !.reg = r, !.raw = raw]]
    /\ UNCHANGED frame

\* Step 1: re-verify the raw token.
ApproveVerify(w) ==
    LET t == tx[w]
        found == get_by_token_hash(w, hash_token(t.raw)) IN
    /\ t.pc = "a_verify"
    /\ IF found = {} THEN Raise(w, "TokenNotFound")
       ELSE LET entry_token == VisTok(w)[CHOOSE r \in found : TRUE] IN
            IF is_used(entry_token) THEN Raise(w, "TokenUsed")
            ELSE IF is_expired(entry_token, now) THEN Raise(w, "TokenExpired")
            ELSE IF entry_token.registration_id # t.reg THEN Raise(w, "TokenMismatch")
            ELSE Goto(w, [t EXCEPT !.pc = "a_use", !.et = entry_token, !.loaded = entry_token])
    /\ UNCHANGED frame

\* Step 2: entry_token.use().
ApproveUse(w) ==
    LET t == tx[w]
        res == EntryToken_use(t.et, now) IN
    /\ t.pc = "a_use"
    /\ IF res.ok THEN Goto(w, [t EXCEPT !.pc = "a_token_update", !.et = res.tok])
       ELSE Raise(w, res.err)
    /\ UNCHANGED frame

\* Step 2: entry_token_repo.update(entry_token); the UPDATE waits for the
\* row lock.
ApproveTokenUpdate(w) ==
    LET t == tx[w]
        r == t.et.registration_id IN
    /\ t.pc = "a_token_update"
    /\ ~TokLocked(w, r)
    /\ Goto(w, [t EXCEPT !.pc = "a_admit",
                         !.wTok = Put(t.wTok, r, EntryTokenRepository_update(VisTok(w)[r], t.loaded, t.et))])
    /\ UNCHANGED frame

\* Step 3: load the registration, admit(), persist.
ApproveAdmit(w) ==
    LET t == tx[w]
        res == Registration_admit(VisReg(w)[t.reg].status) IN
    /\ t.pc = "a_admit"
    /\ IF ~res.ok THEN Raise(w, "AdmitPrecondition")
       ELSE /\ ~RegLocked(w, t.reg)
            /\ Goto(w, [t EXCEPT !.pc = "a_seating",
                                 !.wReg = Put(t.wReg, t.reg, [status |-> res.status])])
    /\ UNCHANGED frame

(***************************************************************************)
(* Seating scheduler (AssignSeatUseCase.execute).                          *)
(***************************************************************************)
\* SeatAssignmentRepositoryImpl.count_by_room
count_by_room(w, room) == Cardinality({s \in VisSeats(w) : s.room_id = room})

\* SeatAssignmentRepositoryImpl.count_by_room_and_institution
count_by_room_and_institution(w, room, inst) ==
    Cardinality({s \in VisSeats(w) : s.room_id = room /\ institution_id[s.registration_id] = inst})

\* SeatAssignmentRepositoryImpl.get_by_room, as the set of taken seat numbers
taken_seats(w, room) == {s.seat_number : s \in {x \in VisSeats(w) : x.room_id = room}}

\* seat_number = 1; while seat_number in taken_seats: seat_number += 1
RECURSIVE NextSeatFrom(_, _)
NextSeatFrom(n, taken) == IF n \in taken THEN NextSeatFrom(n + 1, taken) ELSE n

\* The search started at 0 instead of 1.
NextSeat_zero_based(taken) == NextSeatFrom(0, taken)

NextSeat(taken) == NextSeatFrom(1, taken)

\* The variants counted from seat 1.
VariantOf_from_one(seat) == ((seat - 1) % variants_count) + 1

\* variant_number = (seat_number % variants_count) + 1
VariantOf(seat) == (seat % variants_count) + 1

\* Steps 1-2 of the scheduler: an existing assignment is returned unchanged;
\* without rooms the caller falls back to random.randint(1, variants_count).
AssignSeatStart(w) ==
    LET t == tx[w]
        existing == {s \in VisSeats(w) : s.registration_id = t.reg} IN
    /\ t.pc = "a_seating"
    /\ IF existing # {}
       THEN LET e == CHOOSE s \in existing : TRUE IN
            Goto(w, [t EXCEPT !.pc = "a_finish", !.best_room = e.room_id,
                              !.seat_number = e.seat_number, !.variant_number = e.variant_number])
       ELSE IF Len(rooms) = 0
       THEN \E v \in 1..variants_count :
                Goto(w, [t EXCEPT !.pc = "a_finish", !.variant_number = v])
       ELSE Goto(w, [t EXCEPT !.pc = "a_room_loop", !.i = 1])
    /\ UNCHANGED frame

\* The comparison with the tie broken towards the fuller room.
Better_fewest_free(same_inst, free_seats, best_same_inst, best_free_seats) ==
    (same_inst < best_same_inst)
    \/ (same_inst = best_same_inst /\ (best_free_seats = -1 \/ free_seats < best_free_seats))

\* (same_inst < best_same_inst) or
\* (same_inst == best_same_inst and free_seats > best_free_seats)
Better(same_inst, free_seats, best_same_inst, best_free_seats) ==
    (same_inst < best_same_inst)
    \/ (same_inst = best_same_inst /\ free_seats > best_free_seats)

\* One iteration of "for room in rooms"; seen keeps, for the proof only, the
\* counts the iteration computed.
AssignSeatEvalRoom(w) ==
    LET t == tx[w]
        room == rooms[t.i]
        occupied == count_by_room(w, room)
        free_seats == capacity[room] - occupied
        inst == institution_id[t.reg]
        same_inst == IF inst # "none" THEN count_by_room_and_institution(w, room, inst) ELSE 0 IN
    /\ t.pc = "a_room_loop"
    /\ t.i <= Len(rooms)
    /\ LET u == [t EXCEPT !.i = t.i + 1,
                           !.seen = Append(t.seen, [room |-> room, free_seats |-> free_seats,
                                                    same_inst |-> same_inst])] IN
       IF free_seats <= 0
       THEN Goto(w, u)
       ELSE IF Better(same_inst, free_seats, t.best_same_inst, t.best_free_seats)
       THEN Goto(w, [u EXCEPT !.best_room = room,
                              !.best_same_inst = same_inst, !.best_free_seats = free_seats])
       ELSE Goto(w, u)
    /\ UNCHANGED frame

\* After the loop: NoFreeSeats, or the smallest free seat of the chosen room
\* and its variant.
AssignSeatPick(w) ==
    LET t == tx[w] IN
    /\ t.pc = "a_room_loop"
    /\ t.i > Len(rooms)
    /\ IF t.best_room = "none" THEN Raise(w, "NoFreeSeats")
       ELSE LET seat == NextSeat(taken_seats(w, t.best_room)) IN
            Goto(w, [t EXCEPT !.pc = "a_seat_insert", !.seat_number = seat,
                              !.variant_number = VariantOf(seat), !.seen = << >>])
    /\ UNCHANGED frame

\* uq_room_seat and the unique registration_id of seat_assignments.
SeatKeyClash(s, room, seat, reg) ==
    (s.room_id = room /\ s.seat_number = seat) \/ s.registration_id = reg

\* seat_repo.create(assignment): the INSERT waits for a concurrent
\* uncommitted insert of the same key, and fails on a committed one.
AssignSeatInsert(w) ==
    LET t == tx[w] IN
    /\ t.pc = "a_seat_insert"
    /\ IF \E s \in seat_assignments : SeatKeyClash(s, t.best_room, t.seat_number, t.reg)
       THEN Raise(w, "IntegrityError")
       ELSE /\ ~\E o \in Workers \ {w} : \E s \in tx[o].wSeats :
                    SeatKeyClash(s, t.best_room, t.seat_number, t.reg)
            /\ Goto(w, [t EXCEPT !.pc = "a_finish",
                        !.wSeats = t.wSeats \cup {[registration_id |-> t.reg, room_id |-> t.best_room,
                                                   seat_number |-> t.seat_number,
                                                   variant_number |-> t.variant_number]}])
    /\ UNCHANGED frame

(***************************************************************************)
(* Approve, steps 6-13, and the end of the request.                        *)
(***************************************************************************)
\* The sheet of the admission created as an extra sheet.
AdmissionSheetKind_extra == "extra"

\* SheetKind of the sheet created at admission.
AdmissionSheetKind == "primary"

\* Sheet token, Attempt, PDF rendering and upload, AnswerSheet,
\* Registration.complete(), AuditLog.  Rendering, the upload and each
\* write may raise.
ApproveFinish(w) ==
    LET t == tx[w]
        sheet_token == generate_token(nextId)
        res == Registration_complete(VisReg(w)[t.reg].status) IN
    /\ t.pc = "a_finish"
    /\ nextId <= MaxIds
    /\ \/ /\ Raise(w, "IOError")
          /\ UNCHANGED nextId
       \/ IF ~res.ok
          THEN /\ Raise(w, "CompletePrecondition")
               /\ UNCHANGED nextId
          ELSE /\ Goto(w, [t EXCEPT
                     !.pc = "commit",
                     !.wAttempts = {[id |-> nextId, registration_id |-> t.reg,
                                     variant_number |-> t.variant_number,
                                     sheet_token_hash |-> hash_token(sheet_token),
                                     status |-> "printed", score_total |-> Null]},
                     !.wSheets = {[attempt_id |-> nextId, kind |-> AdmissionSheetKind,
                                   sheet_token_hash |-> hash_token(sheet_token)]},
                     !.wReg = Put(t.wReg, t.reg, [status |-> res.status]),
                     !.wAudit = {[entity_type |-> "registration", entity_id |-> t.reg,
                                  action |-> "admitted", attempt_id |-> nextId]}])
               /\ nextId' = nextId + 1
    /\ UNCHANGED <<now, competition, aux, rooms, db, approved, issued>>

\* get_db: the handler returned, the session commits.
Commit(w) ==
    LET t == tx[w] IN
    /\ t.pc = "commit"
    /\ entry_tokens' = Over(entry_tokens, t.wTok)
    /\ registrations' = Over(registrations, t.wReg)
    /\ seat_assignments' = seat_assignments \cup t.wSeats
    /\ attempts' = {IF a.id \in DOMAIN t.wAttUpd THEN t.wAttUpd[a.id] ELSE a : a \in attempts}
                       \cup t.wAttempts
    /\ scans' = Over(scans, t.wScans)
    /\ answer_sheets' = answer_sheets \cup t.wSheets
    /\ audit_logs' = audit_logs \cup t.wAudit
    /\ approved' = IF t.op = "approve" THEN [approved EXCEPT ![t.reg] = @ + 1] ELSE approved
    /\ issued' = IF t.op = "refresh" THEN issued \cup {t.new_raw} ELSE issued
    /\ tx' = [tx EXCEPT ![w] = IdleTx]
    /\ UNCHANGED <<auth, now, competition, statusReq, tokenObj, ocr, objs, response, rooms, nextId>>

\* get_db: the handler raised, the session rolls back.
Rollback(w) ==
    /\ tx[w].pc = "rollback"
    /\ tx' = [tx EXCEPT ![w] = IdleTx]
    /\ UNCHANGED frame

(***************************************************************************)
(* The admission specification.                                            *)
(***************************************************************************)
InitDb ==
    /\ entry_tokens = [r \in Regs |-> [registration_id |-> r, token_hash |-> hash_token(InitialRaw(r)),
                                       raw_token |-> InitialRaw(r), expires_at |-> InitialExpiry,
                                       used_at |-> Null]]
    /\ registrations = [r \in Regs |-> [status |-> "pending"]]
    /\ seat_assignments = {}
    /\ attempts = {}
    /\ answer_sheets = {}
    /\ audit_logs = {}

\* No request in progress, nothing handed out yet.
InitRequests ==
    /\ now = 0
    /\ statusReq = [from |-> "draft", to |-> "draft", ok |-> FALSE]
    /\ tx = [w \in Workers |-> IdleTx]
    /\ nextId = 1
    /\ approved = [r \in Regs |-> 0]
    /\ issued = {}
    /\ users = [u \in Users |-> [role |-> "admin", is_active |-> TRUE]]
    /\ sessions = {}
    /\ calls = [w \in Workers |-> IdleCall]

\* No scan uploaded, no job enqueued.
InitNoScans ==
    /\ scans = << >>
    /\ ocr = << >>

NoEntity == [tok |-> NoToken, uses |-> 0, calls |-> 0, last |-> "none"]

\* A Registration and an Attempt as their constructors leave them, and no
\* method called yet.
NewRegistration == [status |-> "pending", last |-> [op |-> "none", ok |-> TRUE]]
NewAttempt == [status |-> "printed", score_total |-> Null, confidence |-> Null,
               last |-> [op |-> "none", ok |-> TRUE, from |-> "none"]]

\* No results requested yet.
NoResponse == [code |-> 0, results |-> << >>]

InitNoObjects ==
    /\ tokenObj = NoEntity
    /\ regObj = NewRegistration
    /\ attObj = NewAttempt
    /\ response = NoResponse

Init ==
    /\ InitRequests
    /\ competition = [status |-> "draft"]
    /\ rooms \in {<< >>, <<"B">>, AllRooms}
    /\ InitDb
    /\ InitNoObjects
    /\ InitNoScans

ApproveRaws == {BogusRaw} \cup {InitialRaw(r) : r \in Regs}

Next ==
    \/ Tick
    \/ \E s \in CompetitionStatus : ChangeStatus(s)
    \/ \E w \in Workers, r \in Regs, raw \in ApproveRaws \cup issued : StartApprove(w, r, raw)
    \/ \E w \in Workers : ApproveVerify(w)
    \/ \E w \in Workers : ApproveUse(w)
    \/ \E w \in Workers : ApproveTokenUpdate(w)
    \/ \E w \in Workers : ApproveAdmit(w)
    \/ \E w \in Workers : AssignSeatStart(w)
    \/ \E w \in Workers : AssignSeatEvalRoom(w)
    \/ \E w \in Workers : AssignSeatPick(w)
    \/ \E w \in Workers : AssignSeatInsert(w)
    \/ \E w \in Workers : ApproveFinish(w)
    \/ \E w \in Workers : Commit(w)
    \/ \E w \in Workers : Rollback(w)

Spec == Init /\ [][Next]_vars

(***************************************************************************)
(* Verify (VerifyEntryQRUseCase.execute), a read of the committed rows.    *)
(***************************************************************************)
VerifyEntryQR(raw) ==
    LET found == {r \in Regs : entry_tokens[r].token_hash = hash_token(raw)} IN
    IF raw = BogusRaw \/ found = {} THEN "TokenNotFound"
    ELSE LET entry_token == entry_tokens[CHOOSE r \in found : TRUE] IN
         IF is_expired(entry_token, now) THEN "TokenExpired"
         ELSE IF is_used(entry_token) THEN "TokenUsed"
         ELSE IF competition.status # "in_progress" THEN "cannot_proceed"
         ELSE "can_proceed"

(***************************************************************************)
(* Properties of the admission workflow.                                   *)
(***************************************************************************)
AttemptsOf(r) == {a \in attempts : a.registration_id = r}
PrimarySheetsOf(r) ==
    {sh \in answer_sheets : sh.kind = "primary" /\ \E a \in AttemptsOf(r) : a.id = sh.attempt_id}
SeatsIn(room) == {s \in seat_assignments : s.room_id = room}

\* An approve call of worker w made for registration r with r's entry token.
OwnTokenCall(w) ==
    /\ tx[w].op = "approve"
    /\ tx[w].reg \in Regs
    /\ hash_token(tx[w].raw) = entry_tokens[tx[w].reg].token_hash

\* C2, as stated: per registration at most one approve call succeeds, a
\* failed call creates no Attempt, and every call that fails beside the
\* successful one fails with TokenUsed or the admit() precondition error.
C2_SingleApprove_AsStated ==
    /\ \A r \in Regs : approved[r] <= 1 /\ Cardinality(AttemptsOf(r)) = approved[r]
    /\ \A w \in Workers :
          (OwnTokenCall(w) /\ tx[w].pc = "rollback" /\ approved[tx[w].reg] >= 1)
              => tx[w].err \in {"TokenUsed", "AdmitPrecondition"}

\* C2, amended: per registration at most one approve call succeeds, a
\* failed call creates no Attempt, and every call that fails beside the
\* successful one fails with TokenUsed, TokenExpired or the admit()
\* precondition error.
C2_SingleApprove ==
    /\ \A r \in Regs : approved[r] <= 1 /\ Cardinality(AttemptsOf(r)) = approved[r]
    /\ \A w \in Workers :
          (OwnTokenCall(w) /\ tx[w].pc = "rollback" /\ approved[tx[w].reg] >= 1)
              => tx[w].err \in {"TokenUsed", "TokenExpired", "AdmitPrecondition"}

\* A concurrent approve that waited for the winner's commit and then failed
\* its admit() precondition.
C2_Witness ==
    \E w \in Workers :
        /\ OwnTokenCall(w) /\ tx[w].pc = "rollback" /\ tx[w].err = "AdmitPrecondition"
        /\ approved[tx[w].reg] = 1

\* C3: every registration whose admission was approved has exactly one
\* Attempt and exactly one primary AnswerSheet.
C3_OneAttemptOneSheet ==
    \A r \in Regs :
        approved[r] >= 1 =>
            /\ Cardinality(AttemptsOf(r)) = 1
            /\ Cardinality(PrimarySheetsOf(r)) = 1

\* Both registrations approved, another approve of one of them in flight.
C3_Witness ==
    /\ \A r \in Regs : approved[r] = 1
    /\ \E w \in Workers : tx[w].op = "approve" /\ tx[w].pc = "a_verify" /\ OwnTokenCall(w)

\* C6: in every room the seat numbers of the assignments are pairwise
\* distinct and are exactly 1..k, k the number of assignments of the room.
C6_SeatPrefix ==
    \A room \in {"A", "B"} :
        {s.seat_number : s \in SeatsIn(room)} = 1..Cardinality(SeatsIn(room))

\* A room with two assignments.
C6_Witness == \E room \in {"A", "B"} : Cardinality(SeatsIn(room)) = 2

\* C7, as stated: a (room, seat) conflict between concurrent approvals is
\* resolved by a retry of the scheduler and never fails the approval.
C7_ConflictRetried ==
    \A w \in Workers : ~(tx[w].pc = "rollback" /\ tx[w].err = "IntegrityError")

\* C10, as stated: approve passes its re-verification only in a state
\* where Verify on the same raw token returns can_proceed = true.
C10_ApproveOnlyIfVerifyProceeds ==
    [][\A w \in Workers :
          (tx[w].pc = "a_verify" /\ tx'[w].pc = "a_use")
              => VerifyEntryQR(tx[w].raw) = "can_proceed"]_vars

\* The committed rows an approve of registration r writes.
AllVisible(r) ==
    /\ entry_tokens[r].used_at # Null
    /\ registrations[r].status = "completed"
    /\ AttemptsOf(r) # {}
    /\ PrimarySheetsOf(r) # {}
    /\ \E l \in audit_logs : l.entity_id = r /\ l.action = "admitted"
    /\ Len(rooms) > 0 => \E s \in seat_assignments : s.registration_id = r

NoneVisible(r) ==
    /\ entry_tokens[r].used_at = Null
    /\ registrations[r].status = "pending"
    /\ AttemptsOf(r) = {}
    /\ PrimarySheetsOf(r) = {}
    /\ ~\E l \in audit_logs : l.entity_id = r
    /\ ~\E s \in seat_assignments : s.registration_id = r

\* C4: approve is all-or-nothing.  The committed rows change only when a
\* request that did not raise commits; while no approve of a registration
\* has succeeded its token is unused, it is pending and it has no seat,
\* attempt, sheet or audit row; when an approve commits, all its rows are
\* visible together.
C4_AllOrNothing ==
    /\ [](\A r \in Regs : approved[r] = 0 => NoneVisible(r))
    /\ [][/\ db' # db =>
                \E w \in Workers : tx[w].pc = "commit" /\ tx[w].err = "none" /\ tx'[w].pc = "idle"
          /\ \A w \in Workers, r \in Regs :
                (tx[w].pc = "commit" /\ tx[w].op = "approve" /\ tx[w].reg = r
                    /\ tx'[w].pc = "idle")
                    => AllVisible(r)']_vars

\* An approve that raised after it had flushed the token, the registration
\* and the seat.
C4_Witness ==
    \E w \in Workers :
        /\ tx[w].pc = "rollback" /\ tx[w].err = "IOError"
        /\ tx[w].reg \in DOMAIN tx[w].wTok /\ tx[w].reg \in DOMAIN tx[w].wReg
        /\ tx[w].wSeats # {}

(***************************************************************************)
(* The competition lifecycle on its own (C1).                              *)
(***************************************************************************)
NextLifecycle ==
    \/ Tick
    \/ \E s \in CompetitionStatus : ChangeStatusObserved(s)

SpecLifecycle == Init /\ [][NextLifecycle]_vars

LegalTransitions ==
    {<<"draft", "registration_open">>, <<"registration_open", "in_progress">>,
     <<"in_progress", "checking">>, <<"checking", "published">>}

Rank(status) ==
    CASE status = "draft" -> 0
      [] status = "registration_open" -> 1
      [] status = "in_progress" -> 2
      [] status = "checking" -> 3
      [] status = "published" -> 4

\* C1: a status-change request succeeds exactly when it asks for one of
\* draft->registration_open, registration_open->in_progress,
\* in_progress->checking, checking->published, and then sets that status;
\* every other request raises and leaves the status unchanged; the status
\* never moves backwards and never skips a step.
C1_LegalTransitions ==
    [][/\ \A s \in CompetitionStatus :
             ChangeStatusObserved(s) =>
                 /\ statusReq'.ok <=> (<<competition.status, s>> \in LegalTransitions)
                 /\ statusReq'.ok => competition'.status = s
                 /\ ~statusReq'.ok => competition'.status = competition.status
       /\ Rank(competition'.status) \in {Rank(competition.status), Rank(competition.status) + 1}]_vars

\* A refused request: start asked of a competition already in checking.
C1_Witness ==
    /\ ~statusReq.ok /\ statusReq.from = "checking" /\ statusReq.to = "in_progress"
    /\ competition.status = "checking"

(***************************************************************************)
(* EntryToken objects and the use() calls made on them (C5).               *)
(***************************************************************************)
\* entry_token.use() on the token of registration r at the current time.
UseToken(r) ==
    LET o == tokenObj[r]
        res == EntryToken_use(o.tok, now) IN
    /\ o.calls < MaxCalls
    /\ tokenObj' = [tokenObj EXCEPT ![r] = [tok |-> res.tok,
                                            uses |-> o.uses + (IF res.ok THEN 1 ELSE 0),
                                            calls |-> o.calls + 1,
                                            last |-> res.err]]
    /\ UNCHANGED <<auth, now, competition, statusReq, scans, ocr, rooms, db, tx, nextId, approved, issued,
                   objs, response>>

\* The EntryToken of registration r: fresh from EntryToken.create, or loaded
\* from a row that was used at time 0.
TokenObjects(r) ==
    {[NoEntity EXCEPT !.uses = IF u = Null THEN 0 ELSE 1,
                      !.tok = [NoToken EXCEPT !.registration_id = r,
                                             !.token_hash = hash_token(InitialRaw(r)),
                                             !.raw_token = InitialRaw(r),
                                             !.expires_at = e,
                                             !.used_at = u]] : e \in 0..MaxTime, u \in {Null, 0}}

InitToken ==
    /\ InitRequests
    /\ competition = [status |-> "in_progress"]
    /\ rooms = << >>
    /\ InitDb
    /\ InitNoScans
    /\ regObj = NewRegistration /\ attObj = NewAttempt /\ response = NoResponse
    /\ tokenObj \in [Regs -> UNION {TokenObjects(r) : r \in Regs}]
    /\ \A r \in Regs : tokenObj[r] \in TokenObjects(r)

NextToken == Tick \/ \E r \in Regs : UseToken(r)

SpecToken == InitToken /\ [][NextToken]_vars

\* C5: use() succeeds at most once over the life of a token, and only on
\* an unused token that is not expired, setting used_at; use() on a used or
\* an expired token raises and leaves the token as it was.
C5_UseOnce ==
    /\ [](\A r \in Regs : tokenObj[r].uses <= 1)
    /\ [][\A r \in Regs : UseToken(r) =>
            /\ (tokenObj'[r].last = "none") =>
                    /\ tokenObj[r].tok.used_at = Null
                    /\ ~(now > tokenObj[r].tok.expires_at)
                    /\ tokenObj'[r].tok.used_at = now
            /\ (tokenObj[r].tok.used_at # Null \/ now > tokenObj[r].tok.expires_at) =>
                    /\ tokenObj'[r].last # "none"
                    /\ tokenObj'[r].tok = tokenObj[r].tok]_vars

\* A second use() of an unexpired token that use() had marked, refused as
\* already used.
C5_Witness ==
    \E r \in Regs :
        /\ tokenObj[r].uses = 1 /\ tokenObj[r].last = "TokenUsed"
        /\ tokenObj[r].calls = 2 /\ tokenObj[r].tok.used_at >= 1
        /\ ~(now > tokenObj[r].tok.expires_at)

(***************************************************************************)
(* Entry-token refresh (POST /registrations/{id}/refresh-token), run by    *)
(* the owner of the registration, beside approve requests (C8).            *)
(***************************************************************************)
\* POST /registrations/{registration_id}/refresh-token arrives.
StartRefresh(w, r) ==
    /\ tx[w].pc = "idle"
    /\ tx' = [tx EXCEPT ![w] = [IdleTx EXCEPT !.pc = "r_load", !.op = "refresh", !.reg = r]]
    /\ UNCHANGED frame

\* The registration and its entry token are loaded; a used token is refused.
RefreshLoad(w) ==
    LET t == tx[w]
        entry_token == VisTok(w)[t.reg] IN
    /\ t.pc = "r_load"
    /\ IF is_used(entry_token) THEN Raise(w, "AdmissionCompleted")
       ELSE Goto(w, [t EXCEPT !.pc = "r_update", !.et = entry_token, !.loaded = entry_token])
    /\ UNCHANGED frame

\* A new token is generated, the entity takes its hash, its raw value and a
\* new expiry, and entry_token_repo.update(entry_token) is flushed; the
\* response carries the new raw token.
RefreshUpdate(w) ==
    LET t == tx[w]
        new_raw == generate_token(nextId)
        et == [t.et EXCEPT !.token_hash = hash_token(new_raw), !.raw_token = new_raw,
                           !.expires_at = now + entry_token_expire_hours] IN
    /\ t.pc = "r_update"
    /\ nextId <= MaxIds
    /\ ~TokLocked(w, t.reg)
    /\ Goto(w, [t EXCEPT !.pc = "commit", !.et = et, !.new_raw = new_raw,
                         !.wTok = Put(t.wTok, t.reg, EntryTokenRepository_update(VisTok(w)[t.reg], t.loaded, et))])
    /\ nextId' = nextId + 1
    /\ UNCHANGED <<now, competition, aux, rooms, db, approved, issued>>

InitRefresh ==
    /\ InitRequests
    /\ competition = [status |-> "in_progress"]
    /\ rooms = << >>
    /\ InitDb
    /\ InitNoObjects
    /\ InitNoScans

\* The registration whose owner and admitter are active in this scenario,
\* and the raw tokens presented for it.
RefreshRegs == {1}
RefreshRaws == {InitialRaw(r) : r \in RefreshRegs}

NextRefresh ==
    \/ Tick
    \/ \E w \in Workers, r \in RefreshRegs : StartRefresh(w, r)
    \/ \E w \in Workers : RefreshLoad(w)
    \/ \E w \in Workers : RefreshUpdate(w)
    \/ \E w \in Workers, r \in RefreshRegs, raw \in RefreshRaws \cup issued : StartApprove(w, r, raw)
    \/ \E w \in Workers : ApproveVerify(w)
    \/ \E w \in Workers : ApproveUse(w)
    \/ \E w \in Workers : ApproveTokenUpdate(w)
    \/ \E w \in Workers : ApproveAdmit(w)
    \/ \E w \in Workers : AssignSeatStart(w)
    \/ \E w \in Workers : ApproveFinish(w)
    \/ \E w \in Workers : Commit(w)
    \/ \E w \in Workers : Rollback(w)

SpecRefresh == InitRefresh /\ [][NextRefresh]_vars

\* C8, as stated: when a refresh-token request has succeeded, the hash
\* stored for the registration's entry token is the hash of the raw token
\* the response returned.
C8_RefreshStoresNewHash ==
    [][\A w \in Workers, r \in Regs :
          (tx[w].op = "refresh" /\ tx[w].pc = "commit" /\ tx[w].reg = r /\ tx'[w].pc = "idle")
              => entry_tokens'[r].token_hash = hash_token(tx[w].new_raw)]_vars

(***************************************************************************)
(* The OCR worker (process_scan_ocr), one job per uploaded scan (C9).      *)
(***************************************************************************)
Scans == {1, 2}
NoQR == 0                          \* extract_qr_from_image found no QR code
max_retries == 3                   \* max_retries of the Celery task
ocr_confidence_threshold == 70     \* Settings.ocr_confidence_threshold, in percent
OcrScores == {Null, 0, 87}         \* OCRResult.score
OcrConfidences == {55, 70, 92}     \* OCRResult.confidence, in percent

\* The raw sheet token printed as the QR code of the sheet of attempt a.
SheetRaw(a) == generate_token(a)

IdleJob == [pc |-> "queued", retries |-> 0, attempt |-> Null, read_status |-> "none"]

\* session.query(AttemptModel).filter(sheet_token_hash == hash).first()
AttemptByQR(qr) ==
    LET found == {a \in attempts : a.sheet_token_hash = hash_token(qr)} IN
    IF qr = NoQR \/ found = {} THEN Null ELSE (CHOOSE a \in found : TRUE).id

AttemptRow(id) == CHOOSE a \in attempts : a.id = id

\* The confidence test compared strictly.
AutoApply_strict(score, confidence) ==
    score # Null /\ confidence > ocr_confidence_threshold

\* Step 6: ocr_result.score is not None and
\* ocr_result.confidence >= settings.ocr_confidence_threshold
AutoApply(score, confidence) ==
    score # Null /\ confidence >= ocr_confidence_threshold

\* Step 1 when session.get finds no row for the scan: the job returns the
\* payload {"status": "error"} and ends ("error").
\* Steps 1-3: the scan is loaded, the image downloaded, the QR code read
\* and the attempt it names looked up.
OcrLoad(s) ==
    LET j == ocr[s]
        a == AttemptByQR(scans[s].qr) IN
    /\ s \in DOMAIN ocr
    /\ j.pc = "queued"
    /\ ocr' = IF s \notin DOMAIN scans
              THEN [ocr EXCEPT ![s].pc = "error"]
              ELSE [ocr EXCEPT ![s] = [j EXCEPT !.pc = "loaded", !.attempt = a,
                                                !.read_status = IF a = Null THEN "none"
                                                                ELSE AttemptRow(a).status]]
    /\ UNCHANGED <<auth, now, competition, statusReq, tokenObj, objs, response, scans, rooms, db, tx, nextId,
                   approved, issued>>

\* Steps 4-6 and session.commit(): the OCR result is stored on the scan,
\* an unlinked scan is linked to the attempt of its QR code, and the
\* attempt is scored or moved from printed to scanned.
OcrFinish(s, score, confidence) ==
    LET j == ocr[s]
        link == j.attempt # Null /\ scans[s].attempt_id = Null IN
    /\ s \in DOMAIN ocr
    /\ j.pc = "loaded"
    /\ scans' = [scans EXCEPT ![s] = [@ EXCEPT
                     !.attempt_id = IF link THEN j.attempt ELSE @,
                     !.ocr_score = score, !.ocr_confidence = confidence, !.ocr_raw_text = 1]]
    /\ attempts' =
          IF j.attempt # Null /\ AutoApply(score, confidence)
          THEN {IF a.id = j.attempt
                THEN [a EXCEPT !.score_total = score, !.status = "scored"] ELSE a : a \in attempts}
          ELSE IF j.attempt # Null /\ j.read_status = "printed"
          THEN {IF a.id = j.attempt THEN [a EXCEPT !.status = "scanned"] ELSE a : a \in attempts}
          ELSE attempts
    /\ ocr' = [ocr EXCEPT ![s].pc = "done"]
    /\ UNCHANGED <<auth, now, competition, statusReq, tokenObj, objs, response, rooms, entry_tokens, registrations,
                   seat_assignments, answer_sheets, audit_logs, tx, nextId, approved, issued>>

\* An exception in any step: session.rollback(), then self.retry(exc=exc),
\* which requeues the job while retries are left.  Once they are spent,
\* Task.retry raises: MaxRetriesExceededError, caught here and answered
\* with the failure payload ("failed"), or, as Celery does when it is given
\* exc inside an except block, the exception exc itself, which no clause
\* catches and which ends the task as failed with that exception
\* ("raised").  Which of the two is Celery's choice, not this module's.
OcrFail(s) ==
    LET j == ocr[s] IN
    /\ s \in DOMAIN ocr
    /\ j.pc \in {"queued", "loaded"}
    /\ \E outcome \in {"failed", "raised"} :
          ocr' = [ocr EXCEPT ![s] = IF j.retries < max_retries
                                    THEN [IdleJob EXCEPT !.retries = j.retries + 1]
                                    ELSE [IdleJob EXCEPT !.pc = outcome, !.retries = j.retries]]
    /\ UNCHANGED <<auth, now, competition, statusReq, tokenObj, objs, response, scans, rooms, db, tx, nextId,
                   approved, issued>>

\* An attempt as approve left it, and as scoring may have left it since.
AttemptRows(id) ==
    {[id |-> id, registration_id |-> id, variant_number |-> 1,
      sheet_token_hash |-> hash_token(SheetRaw(id)), status |-> st.status,
      score_total |-> st.score_total] :
        st \in {[status |-> "printed", score_total |-> Null],
                 [status |-> "scanned", score_total |-> Null],
                 [status |-> "scored", score_total |-> 40]}}

\* A scan as upload left it: linked to an attempt by the uploader or not,
\* showing the QR code of some sheet or none.
ScanRows ==
    {[attempt_id |-> a, qr |-> q, ocr_score |-> Null, ocr_confidence |-> Null,
      ocr_raw_text |-> Null, verified_by |-> Null] :
          a \in {Null, 1, 2}, q \in {NoQR, SheetRaw(1), SheetRaw(2)}}

InitOCR ==
    /\ InitRequests
    /\ competition = [status |-> "checking"]
    /\ rooms = << >>
    /\ entry_tokens = [r \in Regs |-> [registration_id |-> r, token_hash |-> hash_token(InitialRaw(r)),
                                        raw_token |-> InitialRaw(r), expires_at |-> InitialExpiry,
                                        used_at |-> 0]]
    /\ registrations = [r \in Regs |-> [status |-> "completed"]]
    /\ seat_assignments = {}
    /\ \E a1 \in AttemptRows(1), a2 \in AttemptRows(2) :
          /\ a2.status = "printed"
          /\ attempts = {a1, a2}
    /\ answer_sheets = {[attempt_id |-> a, kind |-> AdmissionSheetKind,
                         sheet_token_hash |-> hash_token(SheetRaw(a))] : a \in {1, 2}}
    /\ audit_logs = {[entity_type |-> "registration", entity_id |-> r,
                      action |-> "admitted", attempt_id |-> r] : r \in Regs}
    /\ InitNoObjects
    /\ scans \in [Scans -> ScanRows]
    /\ ocr = [s \in Scans |-> IdleJob]

NextOCR ==
    \/ \E s \in Scans : OcrLoad(s)
    \/ \E s \in Scans, score \in OcrScores, confidence \in OcrConfidences :
          OcrFinish(s, score, confidence)
    \/ \E s \in Scans : OcrFail(s)

SpecOCR == InitOCR /\ [][NextOCR]_vars

StartVerify(w, raw) ==
    /\ tx[w].pc = "idle"
    /\ tx' = [tx EXCEPT ![w] = [IdleTx EXCEPT !.pc = "v_run", !.op = "verify", !.raw = raw]]
    /\ UNCHANGED frame

\* A verification that marks the token it found as used.
VerifyResult_consuming(t, entry_token, can_proceed) ==
    [t EXCEPT !.pc = "commit", !.can_proceed = can_proceed,
              !.wTok = Put(t.wTok, entry_token.registration_id,
                           [entry_token EXCEPT !.used_at = now])]

\* The VerifyEntryQRResult of steps 5-8: the request has read, and written
\* nothing.
VerifyResult(t, entry_token, can_proceed) ==
    [t EXCEPT !.pc = "commit", !.can_proceed = can_proceed]

\* VerifyEntryQRUseCase.execute, steps 1-8.
VerifyRun(w) ==
    LET t == tx[w]
        found == get_by_token_hash(w, hash_token(t.raw)) IN
    /\ t.pc = "v_run"
    /\ IF found = {} THEN Raise(w, "TokenNotFound")
       ELSE LET entry_token == VisTok(w)[CHOOSE r \in found : TRUE] IN
            IF is_expired(entry_token, now) THEN Raise(w, "TokenExpired")
            ELSE IF is_used(entry_token) THEN Raise(w, "TokenUsed")
            ELSE Goto(w, VerifyResult(t, entry_token, competition.status = "in_progress"))
    /\ UNCHANGED frame

InitVerify ==
    /\ InitRequests
    /\ competition = [status |-> "draft"]
    /\ rooms = << >>
    /\ InitDb
    /\ InitNoObjects
    /\ InitNoScans

NextVerify ==
    \/ Tick
    \/ \E s \in CompetitionStatus : ChangeStatus(s)
    \/ \E w \in Workers, raw \in ApproveRaws : StartVerify(w, raw)
    \/ \E w \in Workers : VerifyRun(w)
    \/ \E w \in Workers, r \in Regs, raw \in ApproveRaws : StartApprove(w, r, raw)
    \/ \E w \in Workers : ApproveVerify(w)
    \/ \E w \in Workers : ApproveUse(w)
    \/ \E w \in Workers : ApproveTokenUpdate(w)
    \/ \E w \in Workers : ApproveAdmit(w)
    \/ \E w \in Workers : AssignSeatStart(w)
    \/ \E w \in Workers : ApproveFinish(w)
    \/ \E w \in Workers : Commit(w)
    \/ \E w \in Workers : Rollback(w)

SpecVerify == InitVerify /\ [][NextVerify]_vars

\* C11: no step of a Verify request, whatever its outcome, changes an
\* EntryToken, Registration, SeatAssignment, Attempt, AnswerSheet or
\* AuditLog row, the competition or the request of another worker, and the
\* request never holds a write of its own: a later Approve meets the state
\* it would have met without the Verify.
C11_VerifyReadOnly ==
    [][\A w \in Workers :
          ((tx[w].op = "verify" \/ tx'[w].op = "verify") /\ tx'[w] # tx[w]) =>
              /\ db' = db
              /\ competition' = competition /\ approved' = approved /\ issued' = issued
              /\ \A o \in Workers \ {w} : tx'[o] = tx[o]
              /\ tx'[w].wTok = << >> /\ tx'[w].wReg = << >> /\ tx'[w].wSeats = {}
              /\ tx'[w].wAttempts = {} /\ tx'[w].wSheets = {} /\ tx'[w].wAudit = {}]_vars

\* A Verify that answered can_proceed while an approve of the same token
\* had flushed its writes and not yet committed.
C11_Witness ==
    \E w \in Workers, o \in Workers :
        /\ tx[w].op = "verify" /\ tx[w].pc = "commit" /\ tx[w].can_proceed
        /\ tx[o].op = "approve" /\ tx[o].raw = tx[w].raw /\ tx[o].pc = "a_finish"

\* The first failing entry-token check in the order TokenNotFound,
\* TokenExpired, TokenUsed, on the rows the request of worker w reads.
FirstFailing(w, raw) ==
    LET found == get_by_token_hash(w, hash_token(raw)) IN
    IF found = {} THEN "TokenNotFound"
    ELSE LET entry_token == VisTok(w)[CHOOSE r \in found : TRUE] IN
         IF is_expired(entry_token, now) THEN "TokenExpired"
         ELSE IF is_used(entry_token) THEN "TokenUsed"
         ELSE "none"

\* C12, as stated: Verify and the re-verification of Approve both report
\* the first failing check in the order TokenNotFound, TokenExpired,
\* TokenUsed (TokenExpired for a token that is both expired and used).
C12_CheckOrder ==
    [][\A w \in Workers :
          (tx[w].pc \in {"v_run", "a_verify"} /\ tx'[w].pc = "rollback") =>
              tx'[w].err = IF FirstFailing(w, tx[w].raw) = "none" THEN "TokenMismatch"
                           ELSE FirstFailing(w, tx[w].raw)]_vars

\* C12, Verify alone: it reports the first failing check in that order.
C12_VerifyOrder ==
    [][\A w \in Workers :
          (tx[w].pc = "v_run" /\ tx'[w].pc = "rollback") =>
              tx'[w].err = FirstFailing(w, tx[w].raw)]_vars

(***************************************************************************)
(* The Registration and Attempt entities, method by method (C13-C16).      *)
(***************************************************************************)
AttemptStatus == {"printed", "scanned", "scored", "published", "invalidated"}
RegOps == {"admit", "complete", "cancel"}
ScoreInputs == {-5, 0, 87}                 \* score arguments of apply_score
ConfidenceInputs == {Null, -10, 0, 100, 120}   \* confidence arguments, in percent

\* cancel() without its check.
Registration_cancel_always(status) == [ok |-> TRUE, status |-> "cancelled"]

\* Registration.cancel: [ok, status]
Registration_cancel(status) ==
    IF status = "cancelled" THEN [ok |-> FALSE, status |-> status]
    ELSE [ok |-> TRUE, status |-> "cancelled"]

\* registration.admit(), .complete() or .cancel().
RegCall(op) ==
    LET res == CASE op = "admit" -> Registration_admit(regObj.status)
                 [] op = "complete" -> Registration_complete(regObj.status)
                 [] op = "cancel" -> Registration_cancel(regObj.status) IN
    /\ regObj' = [status |-> res.status, last |-> [op |-> op, ok |-> res.ok]]
    /\ UNCHANGED <<auth, now, competition, statusReq, tokenObj, scans, ocr, rooms, db, tx, nextId,
                   approved, issued, attObj, response>>

\* can_apply_score as the unit test of the value object expects it.
can_apply_score_strict(status) == status \in {"scanned", "scored"}

\* AttemptStatus.can_apply_score
can_apply_score(status) == status \in {"printed", "scanned", "scored"}

\* AttemptStatus.has_score
has_score(status) == status \in {"scored", "published"}

\* Attempt.mark_scanned: [ok, att]
Attempt_mark_scanned(att) ==
    IF att.status # "printed" THEN [ok |-> FALSE, att |-> att]
    ELSE [ok |-> TRUE, att |-> [att EXCEPT !.status = "scanned"]]

\* apply_score() without the check of the score's sign.
Attempt_apply_score_unvalidated(att, score, confidence) ==
    IF ~can_apply_score(att.status) THEN [ok |-> FALSE, att |-> att]
    ELSE IF confidence # Null /\ ~(0 <= confidence /\ confidence <= 100)
    THEN [ok |-> FALSE, att |-> att]
    ELSE [ok |-> TRUE, att |-> [att EXCEPT !.score_total = score, !.confidence = confidence,
                                           !.status = "scored"]]

\* Attempt.apply_score: [ok, att]
Attempt_apply_score(att, score, confidence) ==
    IF ~can_apply_score(att.status) THEN [ok |-> FALSE, att |-> att]
    ELSE IF score < 0 THEN [ok |-> FALSE, att |-> att]
    ELSE IF confidence # Null /\ ~(0 <= confidence /\ confidence <= 100)
    THEN [ok |-> FALSE, att |-> att]
    ELSE [ok |-> TRUE, att |-> [att EXCEPT !.score_total = score, !.confidence = confidence,
                                           !.status = "scored"]]

\* publish() without its check.
Attempt_publish_unguarded(att) == [ok |-> TRUE, att |-> [att EXCEPT !.status = "published"]]

\* Attempt.publish: [ok, att]
Attempt_publish(att) ==
    IF ~has_score(att.status) THEN [ok |-> FALSE, att |-> att]
    ELSE [ok |-> TRUE, att |-> [att EXCEPT !.status = "published"]]

\* Attempt.invalidate: [ok, att]
Attempt_invalidate(att) == [ok |-> TRUE, att |-> [att EXCEPT !.status = "invalidated"]]

\* The attempt after a method call, with the call and its outcome noted.
AttemptAfter(op, res) ==
    [res.att EXCEPT !.last = [op |-> op, ok |-> res.ok, from |-> attObj.status]]

attFrame == <<auth, now, competition, statusReq, tokenObj, scans, ocr, rooms, db, tx, nextId,
              approved, issued, regObj, response>>

MarkScanned ==
    /\ attObj' = AttemptAfter("mark_scanned", Attempt_mark_scanned(attObj))
    /\ UNCHANGED attFrame

ApplyScore(score, confidence) ==
    /\ attObj' = AttemptAfter("apply_score", Attempt_apply_score(attObj, score, confidence))
    /\ UNCHANGED attFrame

Publish ==
    /\ attObj' = AttemptAfter("publish", Attempt_publish(attObj))
    /\ UNCHANGED attFrame

Invalidate ==
    /\ attObj' = AttemptAfter("invalidate", Attempt_invalidate(attObj))
    /\ UNCHANGED attFrame

InitEntities ==
    /\ InitRequests
    /\ competition = [status |-> "in_progress"]
    /\ rooms = << >>
    /\ InitDb
    /\ InitNoObjects
    /\ InitNoScans

NextEntities ==
    \/ \E op \in RegOps : RegCall(op)
    \/ MarkScanned
    \/ \E score \in ScoreInputs, confidence \in ConfidenceInputs : ApplyScore(score, confidence)
    \/ Publish
    \/ Invalidate

SpecEntities == InitEntities /\ [][NextEntities]_vars

\* C13: admit() succeeds only from pending, complete() only from admitted,
\* cancel() from every status but cancelled; a successful call sets the
\* target status, every other call raises and leaves the status unchanged;
\* a cancelled registration never changes status again.
C13_RegistrationTransitions ==
    /\ [][\A op \in RegOps :
            RegCall(op) =>
                /\ regObj'.last.ok <=>
                       \/ (op = "admit" /\ regObj.status = "pending")
                       \/ (op = "complete" /\ regObj.status = "admitted")
                       \/ (op = "cancel" /\ regObj.status # "cancelled")
                /\ regObj'.last.ok =>
                       regObj'.status = CASE op = "admit" -> "admitted"
                                          [] op = "complete" -> "completed"
                                          [] op = "cancel" -> "cancelled"
                /\ ~regObj'.last.ok => regObj'.status = regObj.status]_vars
    /\ [][regObj.status = "cancelled" => regObj'.status = "cancelled"]_vars

\* A cancelled registration on which admit() was refused.
C13_Witness ==
    /\ regObj.status = "cancelled"
    /\ regObj.last = [op |-> "admit", ok |-> FALSE]

\* C14: an Attempt with status published has a score_total.
C14_PublishedHasScore ==
    attObj.status = "published" => attObj.score_total # Null

\* An attempt that publish() has just published.
C14_Witness ==
    /\ attObj.status = "published"
    /\ attObj.last = [op |-> "publish", ok |-> TRUE, from |-> "scored"]

CompetitionIds == {"math", "physics"}
RequestedIds == {"math", "unknown"}

\* RegistrationModel.competition_id: the registrations of the model belong
\* to "math", every other registration to "physics".
competition_id(r) == IF r \in Regs THEN "math" ELSE "physics"

\* A scored attempt of the other competition.
ForeignAttempt ==
    [id |-> 9, registration_id |-> 9, variant_number |-> 1,
     sheet_token_hash |-> hash_token(SheetRaw(9)), status |-> "scored", score_total |-> 87]

\* The attempts a score may be applied to.
AttemptIds == Regs \cup {ForeignAttempt.id}

\* POST /scans/attempts/{attempt_id}/apply-score for an existing attempt:
\* Attempt.apply_score(score, None), a ValueError answered with 400 and
\* nothing written, else the attempt updated and the audit record created.
ApplyScoreDirect(a, score) ==
    LET row == AttemptRow(a)
        res == Attempt_apply_score([status |-> row.status, score_total |-> row.score_total,
                                    confidence |-> Null], score, Null) IN
    /\ \E x \in attempts : x.id = a
    /\ nextId <= MaxIds
    /\ IF ~res.ok
       THEN UNCHANGED <<attempts, audit_logs, nextId>>
       ELSE /\ attempts' = {IF x.id = a
                            THEN [x EXCEPT !.status = res.att.status,
                                           !.score_total = res.att.score_total]
                            ELSE x : x \in attempts}
            /\ audit_logs' = audit_logs \cup
                  {[id |-> nextId, entity_type |-> "attempt", entity_id |-> a,
                    action |-> "score_applied", attempt_id |-> a, score |-> score]}
            /\ nextId' = nextId + 1
    /\ UNCHANGED <<now, competition, aux, rooms, entry_tokens, registrations,
                   seat_assignments, answer_sheets, tx, approved, issued>>

\* The status test answering every competition that has left in_progress.
ResultsVisible_after_exam(status) == status \in {"checking", "published"}

\* competition.status != CompetitionStatus.PUBLISHED -> 403
ResultsVisible(status) == status = "published"

\* The query without its conditions on the attempt.
ResultRows_unfiltered(cid) ==
    {a \in attempts : competition_id(a.registration_id) = cid}

\* The rows of the query: attempts joined to registrations, of the
\* competition, scored or published, with a score.
ResultRows(cid) ==
    {a \in attempts : /\ competition_id(a.registration_id) = cid
                      /\ a.status \in {"scored", "published"}
                      /\ a.score_total # Null}

\* order_by(score_total.desc()): every order of the rows in which the
\* scores do not increase; the order of equal scores is the database's.
OrderByScoreDesc(rows) ==
    {q \in [1..Cardinality(rows) -> rows] :
        /\ \A i, j \in DOMAIN q : i # j => q[i] # q[j]
        /\ \A i, j \in DOMAIN q : i < j => q[i].score_total >= q[j].score_total}

\* for rank, row in enumerate(rows, start=1): ResultEntry(rank=rank, ...);
\* the participant stands for the name, school and grade of the row.
Entries(q) ==
    [i \in DOMAIN q |-> [rank |-> i, participant |-> q[i].registration_id,
                         score |-> q[i].score_total]]

\* GET /results/{competition_id}
GetResults(cid) ==
    /\ IF cid \notin CompetitionIds
       THEN response' = [code |-> 404, results |-> << >>]
       ELSE IF ~ResultsVisible(competition.status)
       THEN response' = [code |-> 403, results |-> << >>]
       ELSE \E q \in OrderByScoreDesc(ResultRows(cid)) :
               response' = [code |-> 200, results |-> Entries(q)]
    /\ UNCHANGED <<auth, now, competition, statusReq, tokenObj, scans, ocr, objs, rooms, db, tx,
                   nextId, approved, issued>>

\* A competition before anybody was admitted, or one in progress whose
\* participants were admitted and whose sheets may have been scanned and
\* scored since.
InitResults ==
    /\ InitRequests
    /\ rooms = << >>
    /\ InitNoObjects
    /\ InitNoScans
    /\ \/ /\ competition = [status |-> "draft"]
          /\ InitDb
       \/ /\ competition = [status |-> "in_progress"]
          /\ entry_tokens = [r \in Regs |->
                [registration_id |-> r, token_hash |-> hash_token(InitialRaw(r)),
                 raw_token |-> InitialRaw(r), expires_at |-> InitialExpiry, used_at |-> 0]]
          /\ registrations = [r \in Regs |-> [status |-> "completed"]]
          /\ seat_assignments = {}
          /\ \E a1 \in AttemptRows(1), a2 \in AttemptRows(2) :
                attempts = {a1, a2, ForeignAttempt}
          /\ answer_sheets = {[attempt_id |-> a, kind |-> AdmissionSheetKind,
                               sheet_token_hash |-> hash_token(SheetRaw(a))] : a \in {1, 2}}
          /\ audit_logs = {[entity_type |-> "registration", entity_id |-> r,
                            action |-> "admitted", attempt_id |-> r] : r \in Regs}

NextResults ==
    \/ \E new_status \in CompetitionStatus : ChangeStatus(new_status)
    \/ \E a \in AttemptIds, score \in ScoreInputs : ApplyScoreDirect(a, score)
    \/ \E cid \in RequestedIds : GetResults(cid)

SpecResults == InitResults /\ [][NextResults]_vars

\* C17: a request for the results of the competition is answered with rows
\* only when the competition is published; in every other status it is
\* answered 403 with no row.
C17_OnlyPublished ==
    [][GetResults("math") =>
          /\ (response'.code = 200) <=> (competition.status = "published")
          /\ competition.status # "published" =>
                response'.code = 403 /\ response'.results = << >>]_vars

\* A request refused in checking while the competition has scores.
C17_Witness ==
    /\ response.code = 403
    /\ competition.status = "checking"
    /\ \E a \in attempts : competition_id(a.registration_id) = "math" /\ a.score_total # Null

\* C18: the results of the published competition are exactly its attempts
\* that are scored or published and have a score, each once with its
\* score, in an order in which the score never increases.
C18_ResultRows ==
    [][GetResults("math") /\ competition.status = "published" =>
          LET res == response'.results
              expected == {a \in attempts : /\ a.registration_id \in Regs
                                            /\ a.status \in {"scored", "published"}
                                            /\ a.score_total # Null} IN
          /\ Len(res) = Cardinality(expected)
          /\ {[registration_id |-> res[i].participant, score_total |-> res[i].score] :
                  i \in DOMAIN res}
               = {[registration_id |-> a.registration_id, score_total |-> a.score_total] :
                      a \in expected}
          /\ \A i, j \in DOMAIN res : i < j => res[i].score >= res[j].score]_vars

\* The one scored attempt of the competition listed while its attempt
\* that is not scored and the scored attempt of the other competition are
\* left out.
C18_Witness ==
    /\ response.code = 200
    /\ Len(response.results) = 1
    /\ competition.status = "published"
    /\ \E a \in attempts : a.registration_id \in Regs /\ a.status \in {"printed", "scanned"}
    /\ ForeignAttempt \in attempts

\* C19: the ranks are the standard ranking of the scores: equal scores have
\* equal ranks, and a rank is one more than the number of entries with a
\* higher score.
C19_StandardRanking ==
    LET res == response.results IN
    \A i \in DOMAIN res :
        /\ \A j \in DOMAIN res : res[i].score = res[j].score => res[i].rank = res[j].rank
        /\ res[i].rank = 1 + Cardinality({j \in DOMAIN res : res[j].score > res[i].score})


(***************************************************************************)
(* The room chosen by the seating scheduler (C20).                         *)
(***************************************************************************)
\* A seat row of one of the participants 3 and 4, admitted before the two of
\* Regs.
SeatRow(reg, room, seat) ==
    [registration_id |-> reg, room_id |-> room, seat_number |-> seat,
     variant_number |-> VariantOf(seat)]

\* The seats of the earlier participants, in the order of their arrival.
EarlierSeats(room3, room4) ==
    (IF room3 = "none" THEN {} ELSE {SeatRow(3, room3, 1)})
    \cup (IF room4 = "none" THEN {}
          ELSE {SeatRow(4, room4, IF room4 = room3 THEN 2 ELSE 1)})

\* A competition in progress, its rooms in either order of the query, and
\* earlier participants seated within the capacities or not seated.
InitSeating ==
    /\ InitRequests
    /\ competition = [status |-> "in_progress"]
    /\ rooms \in {<<"B">>, AllRooms, <<"B", "A">>}
    /\ entry_tokens = [r \in Regs |-> [registration_id |-> r, token_hash |-> hash_token(InitialRaw(r)),
                                        raw_token |-> InitialRaw(r), expires_at |-> InitialExpiry,
                                        used_at |-> Null]]
    /\ registrations = [r \in Regs |-> [status |-> "pending"]]
    /\ \E room3, room4 \in {"none"} \cup {rooms[k] : k \in DOMAIN rooms} :
          /\ \A room \in {rooms[k] : k \in DOMAIN rooms} :
                Cardinality({s \in EarlierSeats(room3, room4) : s.room_id = room})
                   <= capacity[room]
          /\ seat_assignments = EarlierSeats(room3, room4)
    /\ attempts = {}
    /\ answer_sheets = {}
    /\ audit_logs = {}
    /\ InitNoObjects
    /\ InitNoScans

NextSeating ==
    \/ \E w \in Workers, r \in Regs : StartApprove(w, r, InitialRaw(r))
    \/ \E w \in Workers : ApproveVerify(w)
    \/ \E w \in Workers : ApproveUse(w)
    \/ \E w \in Workers : ApproveTokenUpdate(w)
    \/ \E w \in Workers : ApproveAdmit(w)
    \/ \E w \in Workers : AssignSeatStart(w)
    \/ \E w \in Workers : AssignSeatEvalRoom(w)
    \/ \E w \in Workers : AssignSeatPick(w)
    \/ \E w \in Workers : AssignSeatInsert(w)
    \/ \E w \in Workers : ApproveFinish(w)
    \/ \E w \in Workers : Commit(w)
    \/ \E w \in Workers : Rollback(w)

SpecSeating == InitSeating /\ [][NextSeating]_vars

\* The rooms the scheduler of worker w found with free capacity.
SeenFree(w) == {k \in DOMAIN tx[w].seen : tx[w].seen[k].free_seats > 0}

SpreadRegs == 1..10
SpreadCapacity == [A |-> 10, B |-> 10]
SpreadInstitution(r) == IF r <= 5 THEN "X" ELSE "Y"

SpreadSeatsIn(seats, room) == {s \in seats : s.room_id = room}
SpreadSameInst(seats, room, inst) ==
    {s \in SpreadSeatsIn(seats, room) : SpreadInstitution(s.registration_id) = inst}

\* Step 4 of AssignSeatUseCase.execute over the committed rows, from room i
\* of the list on: [room, same_inst, free_seats] of the best room.
RECURSIVE SpreadEvalRooms(_, _, _, _)
SpreadEvalRooms(seats, inst, i, best) ==
    IF i > Len(rooms) THEN best
    ELSE LET room == rooms[i]
             occupied == Cardinality(SpreadSeatsIn(seats, room))
             free_seats == SpreadCapacity[room] - occupied
             same_inst == Cardinality(SpreadSameInst(seats, room, inst)) IN
         IF free_seats <= 0 THEN SpreadEvalRooms(seats, inst, i + 1, best)
         ELSE IF Better(same_inst, free_seats, best.same_inst, best.free_seats)
         THEN SpreadEvalRooms(seats, inst, i + 1,
                              [room |-> room, same_inst |-> same_inst,
                               free_seats |-> free_seats])
         ELSE SpreadEvalRooms(seats, inst, i + 1, best)

\* The approval of registration r with no other request in progress: the
\* scheduler reads every committed assignment and its insert is committed.
\* The scheduler reads of a participant only the institution, so the
\* participants of one institution arrive in the order of their numbers;
\* the arrivals of the two institutions interleave in every way.
SpreadApprove(r) ==
    LET best == SpreadEvalRooms(seat_assignments, SpreadInstitution(r), 1,
                                [room |-> "none", same_inst |-> Infinity, free_seats |-> -1])
        seat == NextSeat({s.seat_number : s \in SpreadSeatsIn(seat_assignments, best.room)}) IN
    /\ ~\E s \in seat_assignments : s.registration_id = r
    /\ \A q \in SpreadRegs :
          (q < r /\ SpreadInstitution(q) = SpreadInstitution(r)) =>
             \E s \in seat_assignments : s.registration_id = q
    /\ best.room # "none"
    /\ seat_assignments' = seat_assignments \cup {SeatRow(r, best.room, seat)}
    /\ UNCHANGED <<now, competition, aux, rooms, entry_tokens, registrations, attempts,
                   answer_sheets, audit_logs, tx, nextId, approved, issued>>

InitSpread ==
    /\ InitRequests
    /\ competition = [status |-> "in_progress"]
    /\ rooms \in {AllRooms, <<"B", "A">>}
    /\ InitDb
    /\ InitNoObjects
    /\ InitNoScans

NextSpread == \E r \in SpreadRegs : SpreadApprove(r)

SpecSpread == InitSpread /\ [][NextSpread]_vars

AllSeated == {s.registration_id : s \in seat_assignments} = SpreadRegs

\* C21 as stated: after the ten approvals each room holds 5 participants of
\* X and 5 of Y.
C21_FiveOfEach_AsStated ==
    AllSeated =>
        \A room \in {"A", "B"}, inst \in {"X", "Y"} :
            Cardinality(SpreadSameInst(seat_assignments, room, inst)) = 5

\* C21: after the ten approvals, in whichever order, each room holds
\* exactly 5 participants, 3 of one institution and 2 of the other; and at
\* no time do the two rooms differ by more than one participant of an
\* institution.
C21_EvenSpread ==
    /\ \A inst \in {"X", "Y"} :
          LET a == Cardinality(SpreadSameInst(seat_assignments, "A", inst))
              b == Cardinality(SpreadSameInst(seat_assignments, "B", inst)) IN
          a - b \in {-1, 0, 1}
    /\ AllSeated =>
          \A room \in {"A", "B"} :
              /\ Cardinality(SpreadSeatsIn(seat_assignments, room)) = 5
              /\ \A inst \in {"X", "Y"} :
                    Cardinality(SpreadSameInst(seat_assignments, room, inst)) \in {2, 3}

\* All ten seated, room A with 3 participants of X and 2 of Y.
C21_Witness ==
    /\ AllSeated
    /\ Cardinality(SpreadSameInst(seat_assignments, "A", "X")) = 3
    /\ Cardinality(SpreadSameInst(seat_assignments, "A", "Y")) = 2


(***************************************************************************)
(* The variant of a seat (C22).                                            *)
(***************************************************************************)
\* C22 as stated: variant_number = ((seat_number - 1) mod V) + 1 for every
\* seat assignment.
C22_VariantFromOne ==
    \A s \in seat_assignments :
        s.variant_number = ((s.seat_number - 1) % variants_count) + 1

\* C22: variant_number = (seat_number mod V) + 1 for every seat assignment,
\* a variant of 1..V: seat 1 receives variant 2 and seat V variant 1.
C22_VariantOfSeat ==
    \A s \in seat_assignments :
        /\ s.variant_number = (s.seat_number % variants_count) + 1
        /\ s.variant_number \in 1..variants_count
        /\ s.seat_number = 1 => s.variant_number = (IF variants_count = 1 THEN 1 ELSE 2)
        /\ s.seat_number = variants_count => s.variant_number = 1

\* Approvals have committed seat 1 and seat V of a room.
C22_Witness ==
    \E s1, s2 \in seat_assignments :
        /\ s1.registration_id \in Regs /\ s2.registration_id \in Regs
        /\ s1.room_id = s2.room_id
        /\ s1.seat_number = 1
        /\ s2.seat_number = variants_count
        /\ s1 # s2


(***************************************************************************)
(* Registration for the competition (C23, C24).                            *)
(***************************************************************************)
Participants == {"p1", "p2"}

\* The status test passing while the competition is still a draft.
is_registration_open_from_draft(status) == status \in {"draft", "registration_open"}

\* Competition.is_registration_open
is_registration_open(status) == status = "registration_open"

\* RegistrationRepositoryImpl.get_by_participant_and_competition, over the
\* rows a session or the database holds
RegistrationsOf(rows, p) == {r \in DOMAIN rows : rows[r].participant_id = p}

\* POST /registrations arrives for the profile of the current user, or for
\* a user without a participant profile.
StartRegister(w, p) ==
    /\ tx[w].pc = "idle"
    /\ tx' = [tx EXCEPT ![w] = [IdleTx EXCEPT !.pc = "r_check", !.op = "register",
                                             !.participant = p]]
    /\ UNCHANGED frame

\* POST /admin/registrations arrives.
StartAdminRegister(w, p) ==
    /\ tx[w].pc = "idle"
    /\ tx' = [tx EXCEPT ![w] = [IdleTx EXCEPT !.pc = "r_admin", !.op = "admin_register",
                                             !.participant = p, !.skip = TRUE]]
    /\ UNCHANGED frame

\* admin_register_participant builds TokenService() without the secret key
\* its constructor requires: the TypeError leaves the handler before the
\* use case is called.
AdminRegister(w) ==
    /\ tx[w].pc = "r_admin"
    /\ Raise(w, "TypeError")
    /\ UNCHANGED frame

\* RegisterForCompetitionUseCase.execute up to the duplicate check.
RegisterCheck(w) ==
    LET t == tx[w] IN
    /\ t.pc = "r_check"
    /\ IF t.participant \notin Participants
       THEN Raise(w, "ParticipantNotFound")
       ELSE IF ~t.skip /\ ~is_registration_open(competition.status)
       THEN Raise(w, "RegistrationClosed")
       ELSE IF RegistrationsOf(VisReg(w), t.participant) # {}
       THEN Raise(w, "DuplicateRegistration")
       ELSE Goto(w, [t EXCEPT !.pc = "r_create"])
    /\ UNCHANGED frame

\* registration_repository.create and entry_token_repository.create: the
\* INSERT of the registration waits for a concurrent uncommitted insert of
\* the same (participant, competition) and fails on a committed one
\* (uq_participant_competition); then the token is generated and stored.
RegisterCreate(w) ==
    LET t == tx[w]
        token == generate_token(nextId) IN
    /\ t.pc = "r_create"
    /\ nextId <= MaxIds
    /\ IF RegistrationsOf(registrations, t.participant) # {}
       THEN /\ Raise(w, "IntegrityError")
            /\ UNCHANGED nextId
       ELSE /\ ~\E o \in Workers \ {w} : RegistrationsOf(tx[o].wReg, t.participant) # {}
            /\ Goto(w, [t EXCEPT
                  !.pc = "commit", !.reg = nextId, !.new_raw = token,
                  !.wReg = Put(t.wReg, nextId, [status |-> "pending",
                                                participant_id |-> t.participant]),
                  !.wTok = Put(t.wTok, nextId,
                               [registration_id |-> nextId, token_hash |-> hash_token(token),
                                raw_token |-> token,
                                expires_at |-> now + entry_token_expire_hours,
                                used_at |-> Null])])
            /\ nextId' = nextId + 1
    /\ UNCHANGED <<now, competition, aux, rooms, db, approved, issued>>

\* A new competition: nobody registered yet.
InitRegister ==
    /\ InitRequests
    /\ competition = [status |-> "draft"]
    /\ rooms = << >>
    /\ entry_tokens = << >>
    /\ registrations = << >>
    /\ seat_assignments = {}
    /\ attempts = {}
    /\ answer_sheets = {}
    /\ audit_logs = {}
    /\ InitNoObjects
    /\ InitNoScans

NextRegister ==
    \/ \E new_status \in CompetitionStatus : ChangeStatus(new_status)
    \/ \E w \in Workers, p \in Participants \cup {"nobody"} : StartRegister(w, p)
    \/ \E w \in Workers, p \in Participants : StartAdminRegister(w, p)
    \/ \E w \in Workers : AdminRegister(w)
    \/ \E w \in Workers : RegisterCheck(w)
    \/ \E w \in Workers : RegisterCreate(w)
    \/ \E w \in Workers : Commit(w)
    \/ \E w \in Workers : Rollback(w)

SpecRegister == InitRegister /\ [][NextRegister]_vars

\* At most one registration of a participant for the competition, and one
\* entry token for each registration.
C23_OneRegistration ==
    /\ \A p \in Participants : Cardinality(RegistrationsOf(registrations, p)) <= 1
    /\ DOMAIN entry_tokens = DOMAIN registrations

\* C23: at most one registration exists for a participant and the
\* competition, and a request refused while the participant is registered
\* and the registration is open is refused as DuplicateRegistration.
C23_DuplicateRejected ==
    /\ C23_OneRegistration
    /\ \A w \in Workers :
          (/\ tx[w].op = "register"
           /\ tx[w].pc = "rollback"
           /\ tx[w].err # "RegistrationClosed"
           /\ RegistrationsOf(registrations, tx[w].participant) # {})
             => tx[w].err = "DuplicateRegistration"

\* C24: a request of a participant whose check runs in another status than
\* registration_open ends with RegistrationClosed and has written nothing;
\* only a request that passed the check in registration_open writes a
\* registration and a token, and a refused request leaves the database as it
\* was.
C24_OnlyWhileOpen ==
    [][\A w \in Workers :
          /\ (tx[w].pc = "r_check" /\ tx[w].participant \in Participants
              /\ ~tx[w].skip /\ tx'[w] # tx[w]) =>
                /\ competition.status # "registration_open" =>
                      /\ tx'[w].pc = "rollback" /\ tx'[w].err = "RegistrationClosed"
                      /\ tx'[w].wReg = << >> /\ tx'[w].wTok = << >>
                /\ tx'[w].pc = "r_create" => competition.status = "registration_open"
          /\ (tx[w].op = "register" /\ tx'[w].wReg # tx[w].wReg /\ tx'[w].wReg # << >>) =>
                tx[w].pc = "r_create"
          /\ (tx[w].pc = "rollback" /\ tx'[w] # tx[w]) =>
                (registrations' = registrations /\ entry_tokens' = entry_tokens)]_vars

\* A request refused because the competition has started, after another
\* participant registered while the registration was open.
C24_Witness ==
    \E w \in Workers :
        /\ tx[w].op = "register"
        /\ tx[w].pc = "rollback"
        /\ tx[w].err = "RegistrationClosed"
        /\ competition.status = "in_progress"
        /\ DOMAIN registrations # {}


(***************************************************************************)
(* When a token is refreshed (C25).                                        *)
(***************************************************************************)
\* C25: a refresh-token request writes a new expiry (and token) only for an
\* entry token that is expired and not used.
C25_RefreshOnlyExpired ==
    [][\A w \in Workers :
          (tx[w].op = "refresh" /\ tx'[w].wTok # tx[w].wTok /\ tx'[w].wTok # << >>) =>
             /\ is_expired(VisTok(w)[tx[w].reg], now)
             /\ ~is_used(VisTok(w)[tx[w].reg])]_vars


(***************************************************************************)
(* The end of an OCR job (C26).                                            *)
(***************************************************************************)
\* A step of the job of scan s.
JobStep(s) ==
    \/ OcrLoad(s)
    \/ \E score \in OcrScores, confidence \in OcrConfidences : OcrFinish(s, score, confidence)
    \/ OcrFail(s)

\* The Celery worker runs every job that is queued or being retried.
SpecOCRFair == SpecOCR /\ \A s \in Scans : WF_vars(JobStep(s))

\* Every job ends: completed, or failed for good.
C26_Terminates == \A s \in Scans : <>(ocr[s].pc \in {"done", "failed", "raised"})

\* A job is retried at most max_retries times, and one that failed for good
\* left the OCR fields of its scan null.
C26_RetriesBounded ==
    \A s \in Scans :
        /\ ocr[s].retries <= max_retries
        /\ ocr[s].pc \in {"failed", "raised"} =>
              /\ ocr[s].retries = max_retries
              /\ scans[s].ocr_score = Null
              /\ scans[s].ocr_confidence = Null
              /\ scans[s].ocr_raw_text = Null

\* C26: a job is retried at most 3 times, and after its final failure it
\* has returned the failure payload and the OCR fields of its scan are
\* still null.
C26_FailurePayload ==
    /\ C26_RetriesBounded
    /\ \A s \in Scans : ocr[s].pc # "raised"


(***************************************************************************)
(* Manual verification of a scan's score (POST /scans/{id}/verify, C27).   *)
(***************************************************************************)
UnknownScan == 0                   \* a scan id no row has
CorrectedScores == {0, 82}         \* VerifyScoreRequest.corrected_score, ge=0
Verifier == 9                      \* current_user.id of the verifying user

\* What the session of worker w reads of scans and attempts.
VisScans(w) == Over(scans, tx[w].wScans)
VisAttempts(w) ==
    {IF a.id \in DOMAIN tx[w].wAttUpd THEN tx[w].wAttUpd[a.id] ELSE a : a \in attempts}

\* A verification that records the verifier and keeps the recognised score.
Scan_verify_keeps_score(scan, verified_by, corrected_score) ==
    [scan EXCEPT !.verified_by = verified_by]

\* Scan.verify(verified_by, corrected_score)
Scan_verify(scan, verified_by, corrected_score) ==
    [scan EXCEPT !.ocr_score = corrected_score, !.verified_by = verified_by]

\* POST /scans/{scan_id}/verify arrives.
StartScanVerify(w, s, corrected_score) ==
    /\ tx[w].pc = "idle"
    /\ tx' = [tx EXCEPT ![w] = [IdleTx EXCEPT !.pc = "sv_load", !.op = "scan_verify",
                                             !.scan = s, !.score = corrected_score]]
    /\ UNCHANGED frame

\* The scan is loaded (404), must be linked (400), is verified and updated;
\* the UPDATE waits for an uncommitted write of the same row.
ScanVerifyLoad(w) ==
    LET t == tx[w] IN
    /\ t.pc = "sv_load"
    /\ IF t.scan \notin DOMAIN VisScans(w) THEN Raise(w, "ScanNotFound")
       ELSE IF VisScans(w)[t.scan].attempt_id = Null THEN Raise(w, "ScanNotLinked")
       ELSE /\ ~\E o \in Workers \ {w} : t.scan \in DOMAIN tx[o].wScans
            /\ Goto(w, [t EXCEPT !.pc = "sv_apply",
                                 !.wScans = Put(t.wScans, t.scan,
                                                Scan_verify(VisScans(w)[t.scan], Verifier,
                                                            t.score))])
    /\ UNCHANGED frame

\* The attempt is loaded (404), attempt.apply_score(corrected_score, None)
\* is called with no handler for its ValueError, the attempt is updated and
\* the audit record created.
ScanVerifyApply(w) ==
    LET t == tx[w]
        id == VisScans(w)[t.scan].attempt_id
        found == {a \in VisAttempts(w) : a.id = id} IN
    /\ t.pc = "sv_apply"
    /\ nextId <= MaxIds
    /\ IF found = {}
       THEN Raise(w, "AttemptNotFound") /\ UNCHANGED nextId
       ELSE LET row == CHOOSE a \in found : TRUE
                res == Attempt_apply_score([status |-> row.status,
                                            score_total |-> row.score_total,
                                            confidence |-> Null], t.score, Null) IN
            IF ~res.ok
            THEN Raise(w, "ValueError") /\ UNCHANGED nextId
            ELSE /\ ~\E o \in Workers \ {w} : id \in DOMAIN tx[o].wAttUpd
                 /\ Goto(w, [t EXCEPT
                       !.pc = "commit",
                       !.wAttUpd = Put(t.wAttUpd, id,
                                       [row EXCEPT !.status = res.att.status,
                                                   !.score_total = res.att.score_total]),
                       !.wAudit = {[id |-> nextId, entity_type |-> "attempt",
                                    entity_id |-> id, action |-> "score_verified",
                                    attempt_id |-> id, score |-> t.score,
                                    scan_id |-> t.scan]}])
                 /\ nextId' = nextId + 1
    /\ UNCHANGED <<now, competition, aux, rooms, db, approved, issued>>

\* An attempt row with a status no endpoint sets: invalidated by hand.
InvalidatedAttempt(id) ==
    [id |-> id, registration_id |-> id, variant_number |-> 1,
     sheet_token_hash |-> hash_token(SheetRaw(id)), status |-> "invalidated",
     score_total |-> Null]

\* A competition being checked: two attempts, the second one printed or
\* invalidated, and two uploaded scans, linked to an attempt or not.
InitScanVerify ==
    /\ InitRequests
    /\ competition = [status |-> "checking"]
    /\ rooms = << >>
    /\ entry_tokens = [r \in Regs |-> [registration_id |-> r, token_hash |-> hash_token(InitialRaw(r)),
                                        raw_token |-> InitialRaw(r), expires_at |-> InitialExpiry,
                                        used_at |-> 0]]
    /\ registrations = [r \in Regs |-> [status |-> "completed"]]
    /\ seat_assignments = {}
    /\ \E a1 \in AttemptRows(1), a2 \in AttemptRows(2) \cup {InvalidatedAttempt(2)} :
          /\ a2.status \in {"printed", "invalidated"}
          /\ attempts = {a1, a2}
    /\ answer_sheets = {[attempt_id |-> a, kind |-> AdmissionSheetKind,
                         sheet_token_hash |-> hash_token(SheetRaw(a))] : a \in {1, 2}}
    /\ audit_logs = {[entity_type |-> "registration", entity_id |-> r,
                      action |-> "admitted", attempt_id |-> r] : r \in Regs}
    /\ InitNoObjects
    /\ scans \in [Scans -> {row \in ScanRows : row.qr = NoQR}]
    /\ ocr = << >>

NextScanVerify ==
    \/ \E w \in Workers, s \in Scans \cup {UnknownScan}, corrected_score \in CorrectedScores :
          StartScanVerify(w, s, corrected_score)
    \/ \E w \in Workers : ScanVerifyLoad(w)
    \/ \E w \in Workers : ScanVerifyApply(w)
    \/ \E w \in Workers : Commit(w)
    \/ \E w \in Workers : Rollback(w)

SpecScanVerify == InitScanVerify /\ [][NextScanVerify]_vars

\* C27: a verify request ends committed only without an error and only for
\* a linked scan; its commit leaves the scan verified with the corrected
\* score, the attempt scored with it, and exactly one new audit record, of
\* action score_verified; a request that failed ends rolled back with scans,
\* attempts and audit records as they were.
C27_VerifyAtomic ==
    [][\A w \in Workers :
          (tx[w].op = "scan_verify" /\ tx'[w].pc = "idle") =>
             IF tx[w].pc = "commit"
             THEN LET s == tx[w].scan
                      id == scans'[s].attempt_id
                      a == CHOOSE x \in attempts' : x.id = id IN
                  /\ tx[w].err = "none"
                  /\ scans[s].attempt_id # Null /\ id = scans[s].attempt_id
                  /\ scans'[s].verified_by = Verifier
                  /\ scans'[s].ocr_score = tx[w].score
                  /\ a.status = "scored" /\ a.score_total = tx[w].score
                  /\ Cardinality(audit_logs' \ audit_logs) = 1
                  /\ \A l \in audit_logs' \ audit_logs :
                        l.action = "score_verified" /\ l.entity_id = id
             ELSE /\ tx[w].pc = "rollback"
                  /\ tx[w].err # "none"
                  /\ scans' = scans /\ attempts' = attempts /\ audit_logs' = audit_logs]_vars

\* One request has committed a verification, and another, refused by the
\* status of its attempt after the scan was updated in its session, is about
\* to be rolled back.
C27_Witness ==
    /\ \E l \in audit_logs : l.action = "score_verified"
    /\ \E s \in Scans : scans[s].verified_by = Verifier
    /\ \E w \in Workers :
          /\ tx[w].op = "scan_verify" /\ tx[w].pc = "rollback" /\ tx[w].err = "ValueError"
          /\ tx[w].wScans # << >>
          /\ scans[tx[w].scan].verified_by = Null


(***************************************************************************)
(* Audit records (C28).                                                    *)
(***************************************************************************)
\* C28: every step that commits a change of an attempt, of the competition's
\* status or of an entry token appends exactly one audit record with it.
C28_AuditPerChange ==
    [][(attempts' # attempts \/ competition' # competition \/ entry_tokens' # entry_tokens)
          => Cardinality(audit_logs' \ audit_logs) = 1]_vars

\* C28, the part about attempts alone: every committed change of an
\* attempt's score_total or status comes with exactly one new audit record.
C28_AttemptChangeAudited ==
    [][attempts' # attempts => Cardinality(audit_logs' \ audit_logs) = 1]_vars


(***************************************************************************)
(* The role gate (C29, C30).                                               *)
(***************************************************************************)
Ghost == "u0"                      \* a user id no row has
\* What a request can carry as its Authorization header: nothing, a string
\* that jwt.decode refuses (malformed, wrongly signed or expired), or a valid
\* JWT with its subject.  The role written into the token is never read by
\* the gate and is left out.
Bearers ==
    {[kind |-> "missing", sub |-> "none"], [kind |-> "invalid", sub |-> "none"],
     [kind |-> "jwt", sub |-> Ghost]}
       \cup {[kind |-> "jwt", sub |-> u] : u \in Users}

\* Role-gated operations of presentation/api/v1, with the roles their
\* require_role lists.
GatedOps == {"update_user", "list_rooms", "register_for_competition", "approve_admission",
             "verify_scan_score"}
AllowedRoles(op) ==
    CASE op = "update_user" -> {"admin"}
      [] op = "list_rooms" -> {"admin", "admitter", "invigilator"}
      [] op = "register_for_competition" -> {"participant"}
      [] op = "approve_admission" -> {"admitter", "admin"}
      [] op = "verify_scan_score" -> {"scanner", "admin"}

Unauthorized == 401
Forbidden == 403
Passed == 200

\* verify_access_token(token): the payload, or InvalidTokenError / ValueError
verify_access_token(bearer) ==
    IF bearer.kind = "jwt" THEN [ok |-> TRUE, user_id |-> bearer.sub]
    ELSE [ok |-> FALSE, user_id |-> "none"]

\* get_current_user, behind oauth2_scheme: 401 without a header, with a token
\* that does not verify, or with the id of no user
get_current_user(bearer) ==
    IF bearer.kind = "missing" THEN [code |-> Unauthorized, user |-> "none"]
    ELSE IF ~verify_access_token(bearer).ok THEN [code |-> Unauthorized, user |-> "none"]
    ELSE IF verify_access_token(bearer).user_id \notin DOMAIN users
         THEN [code |-> Unauthorized, user |-> "none"]
    ELSE [code |-> Passed, user |-> verify_access_token(bearer).user_id]

\* A gate that takes any user the token names.
get_current_active_user_any(bearer) ==
    get_current_user(bearer)

\* get_current_active_user: 403 for a user whose is_active is false
get_current_active_user(bearer) ==
    LET current_user == get_current_user(bearer) IN
    IF current_user.code # Passed THEN current_user
    ELSE IF ~users[current_user.user].is_active
         THEN [code |-> Forbidden, user |-> current_user.user]
    ELSE current_user

\* require_role(*allowed_roles).role_checker: 403 for a role not in the list
role_checker(allowed_roles, bearer) ==
    LET current_user == get_current_active_user(bearer) IN
    IF current_user.code # Passed THEN current_user
    ELSE IF users[current_user.user].role \notin allowed_roles
         THEN [code |-> Forbidden, user |-> current_user.user]
    ELSE current_user

authFrame == <<now, competition, statusReq, tokenObj, scans, ocr, objs, response, rooms, db,
               tx, nextId, approved, issued>>

\* POST /auth/login of an active user hands out an access token.
Login(u) ==
    /\ u \in Users
    /\ users[u].is_active
    /\ sessions' = sessions \cup {u}
    /\ UNCHANGED <<users, calls, authFrame>>

\* A request for a gated operation arrives; a valid token of a user is one
\* that a login handed out.
StartCall(w, op, bearer) ==
    /\ calls[w].pc = "idle"
    /\ bearer.sub \in Users => bearer.sub \in sessions
    /\ calls' = [calls EXCEPT ![w] = [pc |-> "gate", op |-> op, bearer |-> bearer,
                                      user |-> "none", code |-> 0]]
    /\ UNCHANGED <<users, sessions, authFrame>>

\* The dependency of the endpoint is resolved: the request is answered 401 or
\* 403, or the handler is entered with the current user.
Gate(w) ==
    LET c == calls[w]
        res == role_checker(AllowedRoles(c.op), c.bearer) IN
    /\ c.pc = "gate"
    /\ calls' = [calls EXCEPT ![w] =
                    IF res.code = Passed
                    THEN [c EXCEPT !.pc = "handler", !.user = res.user]
                    ELSE [IdleCall EXCEPT !.code = res.code, !.user = res.user]]
    /\ UNCHANGED <<users, sessions, authFrame>>

\* The handler of an operation other than update_user runs and the request
\* is answered.
Handler(w) ==
    /\ calls[w].pc = "handler"
    /\ calls[w].op # "update_user"
    /\ calls' = [calls EXCEPT ![w] = [IdleCall EXCEPT !.code = Passed]]
    /\ UNCHANGED <<users, sessions, authFrame>>

\* PUT /admin/users/{user_id} sets is_active and role of the user it names.
UpdateUser(w, target, is_active, role) ==
    /\ calls[w].pc = "handler"
    /\ calls[w].op = "update_user"
    /\ users' = [users EXCEPT ![target] = [role |-> role, is_active |-> is_active]]
    /\ calls' = [calls EXCEPT ![w] = [IdleCall EXCEPT !.code = Passed]]
    /\ UNCHANGED <<sessions, authFrame>>

\* Users of any role, active or not; nobody logged in, no request in progress.
InitAuth ==
    /\ now = 0
    /\ statusReq = [from |-> "draft", to |-> "draft", ok |-> FALSE]
    /\ tx = [w \in Workers |-> IdleTx]
    /\ nextId = 1
    /\ approved = [r \in Regs |-> 0]
    /\ issued = {}
    /\ competition = [status |-> "draft"]
    /\ rooms = AllRooms
    /\ InitDb
    /\ InitNoScans
    /\ InitNoObjects
    /\ users \in [Users -> [role : UserRole, is_active : BOOLEAN]]
    /\ sessions = {}
    /\ calls = [w \in Workers |-> IdleCall]

NextAuth ==
    \/ \E u \in Users : Login(u)
    \/ \E w \in Workers, op \in GatedOps, bearer \in Bearers : StartCall(w, op, bearer)
    \/ \E w \in Workers : Gate(w)
    \/ \E w \in Workers : Handler(w)
    \/ \E w \in Workers, target \in Users, is_active \in BOOLEAN, role \in UserRole :
          UpdateUser(w, target, is_active, role)

SpecAuth == InitAuth /\ [][NextAuth]_vars

\* The request carries a valid subject: a token that verifies and names a user.
HasSubject(bearer) == bearer.kind = "jwt" /\ bearer.sub \in DOMAIN users

\* C29: the gate answers 401 to a request without a valid subject, 403 to a
\* subject that is inactive or whose role is not allowed for the operation,
\* and enters the handler only for an active subject with an allowed role,
\* whatever the user was when the token was issued; the handler's answer and
\* every change of a user row come from a request that passed the gate.
C29_Gate ==
    [][\A w \in Workers :
          LET c == calls[w]
              d == calls'[w] IN
          /\ (c.pc = "gate" /\ d # c) =>
                IF ~HasSubject(c.bearer)
                THEN d.pc = "idle" /\ d.code = Unauthorized
                ELSE IF ~users[c.bearer.sub].is_active
                        \/ users[c.bearer.sub].role \notin AllowedRoles(c.op)
                     THEN d.pc = "idle" /\ d.code = Forbidden
                     ELSE d.pc = "handler" /\ d.user = c.bearer.sub /\ d.op = c.op
          /\ (d.pc = "handler" /\ c.pc # "handler") => c.pc = "gate"
          /\ (d.code = Passed /\ d # c) => c.pc = "handler"
          /\ (users' # users) =>
                \E v \in Workers : calls[v].pc = "handler" /\ calls[v].op = "update_user"
                                   /\ calls'[v].code = Passed]_vars

\* A user who logged in and was deactivated afterwards has been answered 403
\* with the token of that login, and another request has passed the gate.
C29_Witness ==
    \E w, v \in Workers, u \in sessions :
       /\ ~users[u].is_active
       /\ calls[w].pc = "idle" /\ calls[w].code = Forbidden /\ calls[w].user = u
       /\ calls[v].pc = "idle" /\ calls[v].code = Passed

\* C30: the gate never answers Forbidden to an active admin.
C30_AdminSuperset ==
    [][\A w \in Workers :
          LET c == calls[w] IN
          (/\ c.pc = "gate" /\ calls'[w] # c
           /\ HasSubject(c.bearer)
           /\ users[c.bearer.sub].is_active
           /\ users[c.bearer.sub].role = "admin")
             => calls'[w].code # Forbidden]_vars


UnknownReg == 0                    \* a registration id no row has
\* Registration.participant_id of the registrations of Regs.
participant_id(r) == IF r = 1 THEN "p1" ELSE "p2"

\* A check that lets every participant through.
NotOwner_never(registration, participant) == FALSE

\* "if registration.participant_id != participant.id"
NotOwner(registration, participant) == participant_id(registration) # participant

\* The head of get_registration and of refresh_entry_token: the participant
\* of the user (404), the registration (404), the ownership check (403).
OwnerCheck(w, next) ==
    LET t == tx[w] IN
    IF t.participant \notin Participants THEN Raise(w, "ParticipantNotFound")
    ELSE IF t.reg \notin DOMAIN VisReg(w) THEN Raise(w, "RegistrationNotFound")
    ELSE IF NotOwner(t.reg, t.participant) THEN Raise(w, "Forbidden")
    ELSE Goto(w, [t EXCEPT !.pc = next])

\* GET /registrations/{registration_id} of participant p arrives.
StartGetRegistration(w, p, r) ==
    /\ tx[w].pc = "idle"
    /\ tx' = [tx EXCEPT ![w] = [IdleTx EXCEPT !.pc = "g_owner", !.op = "get_registration",
                                             !.reg = r, !.participant = p]]
    /\ UNCHANGED frame

GetRegistrationOwner(w) ==
    /\ tx[w].pc = "g_owner"
    /\ OwnerCheck(w, "g_token")
    /\ UNCHANGED frame

\* The response carries the raw token of the registration's entry token.
GetRegistrationToken(w) ==
    LET t == tx[w] IN
    /\ t.pc = "g_token"
    /\ Goto(w, [t EXCEPT !.pc = "commit", !.entry_token = VisTok(w)[t.reg].raw_token])
    /\ UNCHANGED frame

\* POST /registrations/{registration_id}/refresh-token of participant p
\* arrives.
StartRefreshAs(w, p, r) ==
    /\ tx[w].pc = "idle"
    /\ tx' = [tx EXCEPT ![w] = [IdleTx EXCEPT !.pc = "r_owner", !.op = "refresh",
                                             !.reg = r, !.participant = p]]
    /\ UNCHANGED frame

RefreshOwner(w) ==
    /\ tx[w].pc = "r_owner"
    /\ OwnerCheck(w, "r_load")
    /\ UNCHANGED frame

NextOwner ==
    \/ \E w \in Workers, p \in Participants \cup {"nobody"}, r \in Regs \cup {UnknownReg} :
          StartGetRegistration(w, p, r)
    \/ \E w \in Workers : GetRegistrationOwner(w)
    \/ \E w \in Workers : GetRegistrationToken(w)
    \/ \E w \in Workers, p \in Participants \cup {"nobody"}, r \in Regs \cup {UnknownReg} :
          StartRefreshAs(w, p, r)
    \/ \E w \in Workers : RefreshOwner(w)
    \/ \E w \in Workers : RefreshLoad(w)
    \/ \E w \in Workers : RefreshUpdate(w)
    \/ \E w \in Workers : Commit(w)
    \/ \E w \in Workers : Rollback(w)

SpecOwner == InitRefresh /\ [][NextOwner]_vars

\* C31: a detail or refresh request of a participant for a registration of
\* another participant ends Forbidden as soon as the ownership is checked;
\* no such request carries a raw token in its response or writes a token
\* row, and every token row that changes is changed by a request of the
\* registration's own participant.
C31_OwnOnly ==
    /\ \A w \in Workers :
          LET t == tx[w] IN
          (/\ t.op \in {"get_registration", "refresh"}
           /\ t.participant \in Participants /\ t.reg \in Regs
           /\ participant_id(t.reg) # t.participant)
             => /\ t.entry_token = BogusRaw /\ t.new_raw = BogusRaw /\ t.wTok = << >>
                /\ t.pc \in {"g_owner", "r_owner", "rollback"}
                /\ t.pc = "rollback" => t.err = "Forbidden"
    /\ \A w \in Workers :
          (tx[w].entry_token # BogusRaw \/ tx[w].new_raw # BogusRaw \/ tx[w].wTok # << >>)
             => /\ tx[w].reg \in Regs /\ participant_id(tx[w].reg) = tx[w].participant
                /\ DOMAIN tx[w].wTok \subseteq {tx[w].reg}

\* Participant p1 has been refused the detail of the registration of p2,
\* while p2 has refreshed the token of that registration and is about to be
\* answered with the new raw token.
C31_Witness ==
    \E w, v \in Workers :
       /\ tx[w].op = "get_registration" /\ tx[w].participant = "p1" /\ tx[w].reg = 2
       /\ tx[w].pc = "rollback" /\ tx[w].err = "Forbidden"
       /\ tx[v].op = "refresh" /\ tx[v].participant = "p2" /\ tx[v].reg = 2
       /\ tx[v].pc = "commit" /\ tx[v].new_raw # BogusRaw


(***************************************************************************)
(* An admin and their own account (C32).                                   *)
(***************************************************************************)
\* C32: no request of an admin leaves the requesting admin's own user row
\* with is_active false.
C32_NoSelfDeactivation ==
    [][\A w \in Workers :
          (calls[w].pc = "handler" /\ calls'[w] # calls[w] /\ users[calls[w].user].is_active)
             => users'[calls[w].user].is_active]_vars


(***************************************************************************)
(* Rooms are never overbooked (C33).                                       *)
(***************************************************************************)
\* C33: in every committed state each room holds at most capacity seat
\* assignments and every seat number is at most the capacity of its room.
C33_WithinCapacity ==
    \A i \in DOMAIN rooms :
       /\ Cardinality({s \in seat_assignments : s.room_id = rooms[i]}) <= capacity[rooms[i]]
       /\ \A s \in seat_assignments : s.room_id = rooms[i] => s.seat_number <= capacity[rooms[i]]


(***************************************************************************)
(* The OCR worker and attempts that are closed (C35).                      *)
(***************************************************************************)
\* An attempt row with the status Attempt.publish() sets.
PublishedAttempt(id) ==
    [id |-> id, registration_id |-> id, variant_number |-> 1,
     sheet_token_hash |-> hash_token(SheetRaw(id)), status |-> "published",
     score_total |-> 40]

\* As InitOCR, with the second attempt published or invalidated and the
\* scans uploaded without an attempt_id.
InitOCRClosed ==
    /\ InitRequests
    /\ competition = [status |-> "checking"]
    /\ rooms = << >>
    /\ entry_tokens = [r \in Regs |-> [registration_id |-> r, token_hash |-> hash_token(InitialRaw(r)),
                                        raw_token |-> InitialRaw(r), expires_at |-> InitialExpiry,
                                        used_at |-> 0]]
    /\ registrations = [r \in Regs |-> [status |-> "completed"]]
    /\ seat_assignments = {}
    /\ \E a1 \in AttemptRows(1), a2 \in {PublishedAttempt(2), InvalidatedAttempt(2)} :
          /\ a1.status = "printed"
          /\ attempts = {a1, a2}
    /\ answer_sheets = {[attempt_id |-> a, kind |-> AdmissionSheetKind,
                         sheet_token_hash |-> hash_token(SheetRaw(a))] : a \in {1, 2}}
    /\ audit_logs = {[entity_type |-> "registration", entity_id |-> r,
                      action |-> "admitted", attempt_id |-> r] : r \in Regs}
    /\ InitNoObjects
    /\ scans \in [Scans -> {row \in ScanRows : row.attempt_id = Null}]
    /\ ocr = [s \in Scans |-> IdleJob]

SpecOCRClosed == InitOCRClosed /\ [][NextOCR]_vars

C37_OnlyLinkedAttempt ==
    [][\A a \in attempts' :
          a \notin attempts =>
             \E s \in Scans : /\ ocr[s].pc = "loaded" /\ ocr'[s].pc = "done"
                              /\ scans'[s].attempt_id = a.id]_vars

(***************************************************************************)
(* Published results stay as they are (C38).                               *)
(***************************************************************************)
\* C38: once the competition is published no step changes the score_total
\* or status of an attempt.
C38_PublishedFrozen ==
    [][competition.status = "published" =>
          \A a \in attempts : \E b \in attempts' :
             b.id = a.id /\ b.score_total = a.score_total /\ b.status = a.status]_vars

(***************************************************************************)
(* The range of a score (C40).                                             *)
(***************************************************************************)
max_score == 50                    \* Competition.max_score

\* C40: every attempt that has a score has one between 0 and max_score.
C40_ScoreInRange ==
    \A a \in attempts :
       a.score_total # Null => 0 <= a.score_total /\ a.score_total <= max_score


UploadedScan(attempt_id, qr) ==
    [attempt_id |-> attempt_id, qr |-> qr, ocr_score |-> Null, ocr_confidence |-> Null,
     ocr_raw_text |-> Null, verified_by |-> Null]

\* POST /scans/upload: the file is stored, the Scan is created in the
\* session (flush) and process_scan_ocr.delay(scan_id) puts the job on the
\* queue; the response 202 and the commit of the session come after.
UploadScan(w, s, attempt_id, qr) ==
    /\ tx[w].pc = "idle"
    /\ s \notin DOMAIN scans /\ s \notin DOMAIN ocr
    /\ \A o \in Scans : o < s => o \in DOMAIN ocr
    /\ tx' = [tx EXCEPT ![w] = [IdleTx EXCEPT !.pc = "commit", !.op = "upload_scan",
                                             !.scan = s,
                                             !.wScans = Put(<< >>, s, UploadedScan(attempt_id, qr))]]
    /\ ocr' = Put(ocr, s, IdleJob)
    /\ UNCHANGED <<now, competition, statusReq, tokenObj, scans, objs, response, auth, rooms, db,
                   nextId, approved, issued>>

\* A competition being checked, two printed attempts, and no scan yet.
InitUpload ==
    /\ InitRequests
    /\ competition = [status |-> "checking"]
    /\ rooms = << >>
    /\ entry_tokens = [r \in Regs |-> [registration_id |-> r, token_hash |-> hash_token(InitialRaw(r)),
                                        raw_token |-> InitialRaw(r), expires_at |-> InitialExpiry,
                                        used_at |-> 0]]
    /\ registrations = [r \in Regs |-> [status |-> "completed"]]
    /\ seat_assignments = {}
    /\ \E a1 \in AttemptRows(1), a2 \in AttemptRows(2) :
          /\ a1.status = "printed" /\ a2.status = "printed"
          /\ attempts = {a1, a2}
    /\ answer_sheets = {[attempt_id |-> a, kind |-> AdmissionSheetKind,
                         sheet_token_hash |-> hash_token(SheetRaw(a))] : a \in {1, 2}}
    /\ audit_logs = {[entity_type |-> "registration", entity_id |-> r,
                      action |-> "admitted", attempt_id |-> r] : r \in Regs}
    /\ InitNoObjects
    /\ InitNoScans

NextUpload ==
    \/ \E w \in Workers, s \in Scans, attempt_id \in {Null, 1}, qr \in {NoQR, SheetRaw(1)} :
          UploadScan(w, s, attempt_id, qr)
    \/ \E w \in Workers : Commit(w)
    \/ \E s \in Scans : OcrLoad(s)
    \/ \E s \in Scans, score \in OcrScores, confidence \in OcrConfidences :
          OcrFinish(s, score, confidence)
    \/ \E s \in Scans : OcrFail(s)

SpecUpload == InitUpload /\ [][NextUpload]_vars

\* C36: the job of an uploaded scan never ends without having found the
\* scan's row: it ends with the scan's OCR fields written or failed after
\* its retries.
C36_JobFindsScan ==
    \A s \in DOMAIN ocr :
       /\ ocr[s].pc # "error"
       /\ ocr[s].pc = "done" => s \in DOMAIN scans /\ scans[s].ocr_raw_text # Null
       /\ ocr[s].pc \in {"failed", "raised"} => ocr[s].retries = max_retries

====
